---------------------------- MODULE Spec2Model ----------------------------
(***************************************************************************)
(* Air-Modernity V2: the batch pipeline of src/main.py.                    *)
(*                                                                         *)
(*   03_generate_features.main : per-aircraft rows -> one row per airline  *)
(*   04_build_scores.main      : fleet-size filter + clamp of the score    *)
(*   05_clustering.run         : scaler, KMeans(4), elbow sweep, split,    *)
(*                               KNN, PCA, five output files               *)
(*                                                                         *)
(*   main.__main__             : the three stages in order, stopped by the *)
(*                               first exception                           *)
(*   app.load_all_data, the simulator button of app.py                     *)
(*                                                                         *)
(* The state is the content of the files the stages read and write and,    *)
(* for each run of the program (Runs), the position of main.py, the        *)
(* position of the running stage 05 with its local variables, the outcome  *)
(* of the last stage call and the set `ran' of the stages already started. *)
(* A run is either main.py (main_pc from "03" to "finished" or "failed"),  *)
(* or the scripts started by hand, each at most once and in any order      *)
(* (main_pc = "alone"), or does not take place (main_pc = "absent").       *)
(* `writer' records, for each output file, the run that wrote it last; no  *)
(* action reads it.  `app' is the Streamlit process.                       *)
(*                                                                         *)
(* Numbers.  A float cell is an exact rational <<num, den>> in lowest      *)
(* terms with den > 0; NaN is <<0, 0>>.  Rounding of binary floats is not  *)
(* modelled.                                                               *)
(* Text.  A text cell is a sequence of one-character strings, so that      *)
(* str.strip() is computed; a missing cell (pandas NA) is the value NA.    *)
(***************************************************************************)
EXTENDS Integers, Sequences, FiniteSets

VARIABLES fleetFile, featuresFile, scoresFile, clustersFile,
          scalerFile, knnFile, elbowFile, metricsFile, writer,
          main_pc, pc, loc, last, ran, app

vars == <<fleetFile, featuresFile, scoresFile, clustersFile,
          scalerFile, knnFile, elbowFile, metricsFile, writer,
          main_pc, pc, loc, last, ran, app>>

files == <<fleetFile, featuresFile, scoresFile, clustersFile,
           scalerFile, knnFile, elbowFile, metricsFile, writer>>

\* The runs of the program that may take place side by side.
Runs == {"A", "B"}

---------------------------------------------------------------------------
(* Bounds of the model. *)

\* Most aircraft rows in the input table of stage 03.
MaxRows == 5

\* Airlines of each of the two profiles of the aircraft table on which the
\* whole pipeline succeeds.
ProfileCopies == 5

\* Most copies of one light airline profile in a features table found on disk.
MaxCopies == 2

\* Copies of the heavy airline profile in a features table found on disk.
BigCopies == 10

---------------------------------------------------------------------------
(* Generic helpers. *)

Range(s) == {s[i] : i \in DOMAIN s}

Min2(a, b) == IF a <= b THEN a ELSE b

Max2(a, b) == IF a >= b THEN a ELSE b

Abs(a) == IF a < 0 THEN -a ELSE a

RECURSIVE Gcd(_, _)
Gcd(a, b) == IF b = 0 THEN Abs(a) ELSE Gcd(b, a % b)

Lcm(a, b) == IF a = 0 \/ b = 0 THEN 0 ELSE (Abs(a) \div Gcd(a, b)) * Abs(b)

RECURSIVE SumSeq(_)
SumSeq(s) == IF s = <<>> THEN 0 ELSE Head(s) + SumSeq(Tail(s))

RECURSIVE SelectIdx(_, _, _)
\* The indices i of s, in increasing order, with keep[i].
SelectIdx(n, keep, i) ==
    IF i > n THEN <<>>
    ELSE (IF keep[i] THEN <<i>> ELSE <<>>) \o SelectIdx(n, keep, i + 1)

\* s restricted to the rows where the boolean mask holds, order kept
\* (df[mask]).
Filter(s, mask) ==
    LET idx == SelectIdx(Len(s), mask, 1)
    IN  [j \in 1..Len(idx) |-> s[idx[j]]]

---------------------------------------------------------------------------
(* Float cells as exact rationals. *)

\* A missing cell.
NaN == <<0, 0>>

\* A cell holding text that is not a number ("abc").
BadText == <<1, 0>>

IsNaN(q) == q[2] = 0

\* pd.to_numeric(errors="coerce"): what does not parse becomes NaN.
ToNumeric(q) == IF q[2] = 0 THEN NaN ELSE q

\* a/b in lowest terms, b # 0.
Rat(a, b) ==
    LET g == Gcd(Abs(a), Abs(b))
        s == IF b < 0 THEN -1 ELSE 1
    IN  <<s * (a \div g), s * (b \div g)>>

RInt(n) == <<n, 1>>

RLeq(p, q) == p[1] * q[2] <= q[1] * p[2]

RLess(p, q) == p[1] * q[2] < q[1] * p[2]

RAdd(p, q) == Rat(p[1] * q[2] + q[1] * p[2], p[2] * q[2])

RMul(p, q) == Rat(p[1] * q[1], p[2] * q[2])

\* Fault: the clip is left out.
NoClip(q, lo, hi) == q

\* Series.clip(lo, hi): NaN stays NaN.
Clip(q, lo, hi) ==
    IF IsNaN(q) THEN NaN
    ELSE IF RLess(q, lo) THEN lo
    ELSE IF RLess(hi, q) THEN hi
    ELSE q

\* Series.fillna(0).
FillNa0(q) == IF IsNaN(q) THEN RInt(0) ELSE q

---------------------------------------------------------------------------
(* Text cells. *)

NA == <<"<NA>">>

IsNA(c) == c = NA

RECURSIVE LStrip(_)
LStrip(c) == IF c # <<>> /\ Head(c) = " " THEN LStrip(Tail(c)) ELSE c

RECURSIVE RStrip(_)
RStrip(c) ==
    IF c # <<>> /\ c[Len(c)] = " " THEN RStrip(SubSeq(c, 1, Len(c) - 1)) ELSE c

\* Series.astype("string").str.strip(): NA stays NA.
Strip(c) == IF IsNA(c) THEN NA ELSE RStrip(LStrip(c))

\* The characters of the model's names, in code-point order.
Alphabet ==
    <<" ", "A", "B", "a", "b", "c", "d", "e", "f", "g", "h", "i", "j", "k",
      "l", "m", "n", "o", "p", "q", "r", "s", "t", "u", "v", "w", "x", "y", "z">>

CharOrd(ch) == CHOOSE i \in 1..Len(Alphabet) : Alphabet[i] = ch

RECURSIVE TextLess(_, _)
\* Lexicographic order of two text cells (the sort order of groupby keys).
TextLess(a, b) ==
    IF b = <<>> THEN FALSE
    ELSE IF a = <<>> THEN TRUE
    ELSE IF Head(a) = Head(b) THEN TextLess(Tail(a), Tail(b))
    ELSE CharOrd(Head(a)) < CharOrd(Head(b))

RECURSIVE SortTexts(_)
\* The texts of a finite set in increasing order.
SortTexts(S) ==
    IF S = {} THEN <<>>
    ELSE LET m == CHOOSE x \in S : \A y \in S \ {x} : TextLess(x, y)
         IN  <<m>> \o SortTexts(S \ {m})

---------------------------------------------------------------------------
(* Files. *)

NoTable == [exists |-> FALSE, cols |-> {}, rows |-> <<>>]

Table(cols, rows) == [exists |-> TRUE, cols |-> cols, rows |-> rows]

NoArtifact == [exists |-> FALSE]

\* Some of the texts pd.read_csv takes for a missing value (its default
\* na_values, keep_default_na=True): the empty field, NA, N/A, nan, null, None.
NaMarkers ==
    { <<>>, <<"N", "A">>, <<"N", "/", "A">>, <<"n", "a", "n">>,
      <<"n", "u", "l", "l">>, <<"N", "o", "n", "e">> }

\* A text cell as pd.read_csv returns it.
ReadText(c) == IF c \in NaMarkers THEN NA ELSE c

TextCols == {"airline_name", "country", "region", "aircraft_type", "model_key"}

\* pd.read_csv(path): the table on disk as the stage sees it.  Numbers are
\* read as written; a cell that does not parse as a number is handled where
\* the stage converts the column (ToNumeric).
read_csv(tbl) ==
    Table(tbl.cols,
          [i \in 1..Len(tbl.rows) |->
              [f \in DOMAIN tbl.rows[i] |->
                  IF f \in TextCols THEN ReadText(tbl.rows[i][f]) ELSE tbl.rows[i][f]]])

\* config.MIN_FLEET_SIZE
MIN_FLEET_SIZE == 5

---------------------------------------------------------------------------
(* The input of stage 03: config.DATA_FLEET_ENRICHED, one row per aircraft. *)

FR == <<"F", "R">>
US == <<"U", "S">>
EU == <<"E", "U">>
AM == <<"A", "M">>

AircraftRecord(name, country, region, year, type, key) ==
    [airline_name |-> name, country |-> country, region |-> region,
     entry_year |-> year, aircraft_type |-> type, model_key |-> key]

\* The kinds of aircraft rows the input is drawn from.
RowKinds ==
    << AircraftRecord(<<"A">>, FR, EU, RInt(2020), <<"a">>, <<"x">>),
       AircraftRecord(<<"A">>, FR, EU, RInt(2012), <<"b">>, <<"x">>),
       \* the same airline written with a leading blank
       AircraftRecord(<<" ", "A">>, FR, EU, RInt(2016), <<"a">>, <<"y">>),
       \* entry_year is not a number
       AircraftRecord(<<"A">>, FR, EU, BadText, <<"c">>, <<"z">>),
       \* country missing, region present
       AircraftRecord(<<"A">>, NA, EU, RInt(2020), <<"c">>, <<"z">>),
       \* region blank
       AircraftRecord(<<"B">>, US, <<" ">>, RInt(2000), <<"a">>, <<"x">>),
       \* entry_year far above the plausible range, aircraft_type missing
       AircraftRecord(<<"B">>, US, AM, RInt(9999), NA, <<"x">>),
       \* entry_year far below the plausible range
       AircraftRecord(<<"B">>, US, AM, RInt(-50), <<"b">>, <<"y">>),
       \* airline_name missing
       AircraftRecord(NA, US, AM, RInt(2000), <<"a">>, <<"x">>) >>

RECURSIVE KindSeqs(_, _)
\* The sequences of at most n kinds, kinds in non-decreasing order from lo.
KindSeqs(n, lo) ==
    IF n = 0 THEN {<<>>}
    ELSE {<<>>} \cup
         UNION {{<<i>> \o s : s \in KindSeqs(n - 1, i)} : i \in lo..Len(RowKinds)}

RequiredFleetCols == {"airline_name", "country", "region", "entry_year"}

\* The column sets of the input table.
FleetColSets ==
    { RequiredFleetCols \cup {"aircraft_type", "model_key"},
      RequiredFleetCols \cup {"model_key"},
      RequiredFleetCols,
      RequiredFleetCols \ {"region"},
      (RequiredFleetCols \ {"airline_name", "entry_year"}) \cup {"model_key"} }

FleetTables ==
    { Table(c, [i \in 1..Len(ks) |-> RowKinds[ks[i]]]) :
        c \in FleetColSets, ks \in KindSeqs(MaxRows, 1) }

---------------------------------------------------------------------------
(* Outcome of a stage call. *)

\* result: "ok", "returned" (a return before the work), "running", or the
\* name of the exception that left the stage; by: the call that raised it;
\* why: what its message says; missing, present: the columns it lists.
Outcome(stage, result, by, missing, present) ==
    [stage |-> stage, result |-> result, by |-> by, why |-> "",
     missing |-> missing, present |-> present]

Ok(stage) == Outcome(stage, "ok", "", <<>>, {})

Raised(stage, exc, by) == Outcome(stage, exc, by, <<>>, {})

\* The two ValueErrors of train_test_split(stratify=y) differ by their text.
RaisedWith(stage, exc, by, why) == [Raised(stage, exc, by) EXCEPT !.why = why]

\* raise ValueError(f"... Colonnes manquantes: {missing}. Colonnes dispo: ...")
MissingColumns(stage, by, missing, present) ==
    Outcome(stage, "ValueError", by, missing, present)

IsError(out) == out.result \notin {"ok", "returned", "running", ""}

\* Fault: the exception is swallowed and the next stage is called.
AfterStepGoOn(m, stage, out) ==
    IF m = "alone" THEN "alone"
    ELSE IF stage = "03" THEN "04"
    ELSE IF stage = "04" THEN "05"
    ELSE "finished"

\* main.py after a stage call: the next run_step, or the except branch.
AfterStep(m, stage, out) ==
    IF m = "alone" THEN "alone"
    ELSE IF IsError(out) THEN "failed"
    ELSE IF stage = "03" THEN "04"
    ELSE IF stage = "04" THEN "05"
    ELSE "finished"

\* Fault: a stage waits until no other run is inside stage 05.
MayStartLocked(r, stage) ==
    /\ pc[r] = "idle"
    /\ stage \notin ran[r]
    /\ main_pc[r] \in {"alone", stage}
    /\ \A q \in Runs \ {r} : pc[q] = "idle"

\* A stage is started by main.py in its turn, or by hand.
MayStart(r, stage) ==
    /\ pc[r] = "idle"
    /\ stage \notin ran[r]
    /\ main_pc[r] \in {"alone", stage}

\* The stage called by run r ends with the outcome out.
Finish(r, stage, out) ==
    /\ last' = [last EXCEPT ![r] = out]
    /\ ran' = [ran EXCEPT ![r] = @ \cup {stage}]
    /\ main_pc' = [main_pc EXCEPT ![r] = AfterStep(@, stage, out)]

\* Fault: only the first missing column is reported.
MissingColsFirst(cols, have) ==
    IF SelectSeq(cols, LAMBDA c : c \notin have) = <<>> THEN <<>>
    ELSE <<Head(SelectSeq(cols, LAMBDA c : c \notin have))>>

\* missing = [c for c in cols if c not in df.columns]
MissingCols(cols, have) == SelectSeq(cols, LAMBDA c : c \notin have)

---------------------------------------------------------------------------
(* Stage 03: 03_generate_features.main *)

\* Fault: airline_name is not stripped.
CleanRowKeepName(r) ==
    [r EXCEPT !.country = Strip(r.country),
              !.region = Strip(r.region),
              !.entry_year = ToNumeric(r.entry_year)]

\* Step 3: strip of the three text columns.
CleanRow(r) ==
    [r EXCEPT !.airline_name = Strip(r.airline_name),
              !.country = Strip(r.country),
              !.region = Strip(r.region),
              !.entry_year = ToNumeric(r.entry_year)]

\* Step 4: dropna(subset=["entry_year"]).
HasEntryYear(r) == ~IsNaN(r.entry_year)

\* Fault: only region is looked at.
HasRegion(r) == ~IsNA(r.region) /\ r.region # <<>>

\* Option A: country and region both present and not empty.
HasGeo(r) ==
    /\ ~IsNA(r.country) /\ r.country # <<>>
    /\ ~IsNA(r.region) /\ r.region # <<>>

\* The rows that reach the aggregation.
SurvivingRows(rows) ==
    LET cleaned == [i \in 1..Len(rows) |-> CleanRow(rows[i])]
        dated == Filter(cleaned, [i \in 1..Len(cleaned) |-> HasEntryYear(cleaned[i])])
    IN  Filter(dated, [i \in 1..Len(dated) |-> HasGeo(dated[i])])

\* Fault: the comparison is turned round.
IsModernBefore(r, year) == IF RLeq(r.entry_year, RInt(year)) THEN 1 ELSE 0

\* Step 5.
IsModern(r, year) == IF RLeq(RInt(year), r.entry_year) THEN 1 ELSE 0

\* Fault: model_key is never counted on.
DiversityColTypeOnly(cols) ==
    IF "aircraft_type" \in cols THEN "aircraft_type" ELSE ""

\* Step 6: the column diversity_score is counted on, "" when there is none.
DiversityCol(cols) ==
    IF "aircraft_type" \in cols THEN "aircraft_type"
    ELSE IF "model_key" \in cols THEN "model_key"
    ELSE ""

\* groupby("airline_name"): rows with a missing key belong to no group.
GroupKeys(rows) ==
    SortTexts({rows[i].airline_name : i \in 1..Len(rows)} \ {NA})

GroupRows(rows, name) ==
    Filter(rows, [i \in 1..Len(rows) |-> rows[i].airline_name = name])

\* pd.Series.nunique: distinct values, missing ones not counted.
NUnique(g, col) == Cardinality({g[i][col] : i \in 1..Len(g)} \ {NA})

RECURSIVE RSum(_)
RSum(s) == IF s = <<>> THEN RInt(0) ELSE RAdd(Head(s), RSum(Tail(s)))

\* Steps 7 to 9 for one airline.
AirlineFeatureVector(rows, name, divcol) ==
    LET g == GroupRows(rows, name)
        fleet_size == Len(g)
        m2015 == SumSeq([i \in 1..Len(g) |-> IsModern(g[i], 2015)])
        m2010 == SumSeq([i \in 1..Len(g) |-> IsModern(g[i], 2010)])
        denom == IF fleet_size = 0 THEN 1 ELSE fleet_size
        pct2015 == Rat(m2015 * 100, denom)
        pct2010 == Rat(m2010 * 100, denom)
    IN  [airline_name |-> name,
         country |-> g[1].country,
         region |-> g[1].region,
         avg_entry_year |->
             RMul(RSum([i \in 1..Len(g) |-> g[i].entry_year]), Rat(1, Len(g))),
         modern_count_2015 |-> m2015,
         modern_count_2010 |-> m2010,
         fleet_size |-> fleet_size,
         diversity_score |-> IF divcol = "" THEN 0 ELSE NUnique(g, divcol),
         pct_modern_2015 |-> pct2015,
         pct_modern_2010 |-> pct2010,
         modernity_index |-> Clip(RMul(pct2015, Rat(1, 100)), RInt(0), RInt(1))]

FeatureCols ==
    {"airline_name", "country", "region", "avg_entry_year", "modern_count_2015",
     "modern_count_2010", "fleet_size", "diversity_score", "pct_modern_2015",
     "pct_modern_2010", "modernity_index"}

\* The table stats written to config.FILE_FEATURES.
BuildFeatures(tbl) ==
    LET rows == SurvivingRows(read_csv(tbl).rows)
        keys == GroupKeys(rows)
        divcol == DiversityCol(tbl.cols)
    IN  Table(FeatureCols,
              [i \in 1..Len(keys) |-> AirlineFeatureVector(rows, keys[i], divcol)])

require_columns(cols, have) == MissingCols(cols, have) = <<>>

\* A write either replaces the file or fails when the file is opened, the
\* file keeping its content (OSError).
Stage03_main(r) ==
    /\ MayStart(r, "03")
    /\ IF ~fleetFile.exists
       THEN /\ Finish(r, "03", RaisedWith("03", "FileNotFoundError", "main", "file not found"))
            /\ UNCHANGED <<featuresFile, writer>>
       ELSE IF ~require_columns(<<"airline_name", "country", "region", "entry_year">>,
                                fleetFile.cols)
       THEN /\ Finish(r, "03", MissingColumns("03", "require_columns",
                    MissingCols(<<"airline_name", "country", "region", "entry_year">>,
                                fleetFile.cols),
                    fleetFile.cols))
            /\ UNCHANGED <<featuresFile, writer>>
       ELSE \/ /\ featuresFile' = BuildFeatures(fleetFile)
               /\ writer' = [writer EXCEPT !.features = r]
               /\ Finish(r, "03", Ok("03"))
            \/ /\ Finish(r, "03", RaisedWith("03", "OSError", "to_csv", "write failed"))
               /\ UNCHANGED <<featuresFile, writer>>
    /\ UNCHANGED <<fleetFile, scoresFile, clustersFile, scalerFile, knnFile,
                   elbowFile, metricsFile, pc, loc, app>>

---------------------------------------------------------------------------
(* Stage 04: 04_build_scores.main *)

\* Fault: the boundary value is dropped.
FleetFilterStrict(rows) ==
    Filter(rows, [i \in 1..Len(rows) |-> rows[i].fleet_size > MIN_FLEET_SIZE])

\* Filtre flotte.
FleetFilter(rows) ==
    Filter(rows, [i \in 1..Len(rows) |-> rows[i].fleet_size >= MIN_FLEET_SIZE])

\* Fault: only the upper bound is applied.
ClampScoreUpperOnly(q) ==
    IF RLess(RInt(1), FillNa0(ToNumeric(q))) THEN RInt(1) ELSE FillNa0(ToNumeric(q))

\* Clamp score 0..1 + numeric.
ClampScore(q) == Clip(FillNa0(ToNumeric(q)), RInt(0), RInt(1))

\* Fault: a row whose score is not a number is dropped.
BuildScoresDropMalformed(tbl) ==
    LET kept == FleetFilter(read_csv(tbl).rows)
        good == Filter(kept, [i \in 1..Len(kept) |->
                                 ~IsNaN(ToNumeric(kept[i].modernity_index))])
    IN  Table(tbl.cols,
              [i \in 1..Len(good) |->
                  [good[i] EXCEPT !.modernity_index = ClampScore(@)]])

\* Fault: stage 04 keeps every row.
BuildScoresUnfiltered(tbl) ==
    LET kept == read_csv(tbl).rows
    IN  Table(tbl.cols,
              [i \in 1..Len(kept) |->
                  [kept[i] EXCEPT !.modernity_index = ClampScore(@)]])

\* Lines 47-58: the table written to config.FILE_SCORES.
BuildScores(tbl) ==
    LET kept == FleetFilter(read_csv(tbl).rows)
    IN  Table(tbl.cols,
              [i \in 1..Len(kept) |->
                  [kept[i] EXCEPT !.modernity_index = ClampScore(@)]])

Stage04_main(r) ==
    /\ MayStart(r, "04")
    /\ IF ~featuresFile.exists
       THEN /\ Finish(r, "04", RaisedWith("04", "FileNotFoundError", "main", "file not found"))
            /\ UNCHANGED <<scoresFile, writer>>
       ELSE IF MissingCols(<<"fleet_size", "modernity_index">>, featuresFile.cols) # <<>>
       THEN /\ Finish(r, "04", MissingColumns("04", "main",
                    MissingCols(<<"fleet_size", "modernity_index">>, featuresFile.cols),
                    featuresFile.cols))
            /\ UNCHANGED <<scoresFile, writer>>
       ELSE \/ /\ scoresFile' = BuildScores(featuresFile)
               /\ writer' = [writer EXCEPT !.scores = r]
               /\ Finish(r, "04", Ok("04"))
            \/ /\ Finish(r, "04", RaisedWith("04", "OSError", "to_csv", "write failed"))
               /\ UNCHANGED <<scoresFile, writer>>
    /\ UNCHANGED <<fleetFile, featuresFile, clustersFile, scalerFile, knnFile,
                   elbowFile, metricsFile, pc, loc, app>>

---------------------------------------------------------------------------
(* Stage 05, the numerical part.                                           *)
(*                                                                         *)
(* X is held column by column in integer units: a column of rationals is   *)
(* multiplied by the least common multiple of its denominators, which      *)
(* leaves StandardScaler's output unchanged.  With V[j] = n*sum(x^2) -     *)
(* sum(x)^2 (n^2 times the variance of column j) and LcmV the least common *)
(* multiple of the non-zero V[j], the squared Euclidean distance between   *)
(* two standardized rows u, v is n^2/LcmV times                            *)
(*     sum over j of W[j] * (u[j] - v[j])^2,   W[j] = LcmV / V[j],          *)
(* a column of variance 0 being standardized to the constant 0.            *)
(***************************************************************************)

\* features = ["fleet_size", "diversity_score", "modernity_index", "new_gen_share"]
NFeatures == 4

Cols4 == 1..NFeatures

\* X = df_clean[features].apply(pd.to_numeric, errors="coerce").fillna(0)
FeatureMatrix(rows) ==
    [i \in 1..Len(rows) |->
        << RInt(rows[i].fleet_size),
           RInt(rows[i].diversity_score),
           FillNa0(ToNumeric(rows[i].modernity_index)),
           FillNa0(ToNumeric(rows[i].new_gen_share)) >>]

RECURSIVE LcmSeq(_)
LcmSeq(s) == IF s = <<>> THEN 1 ELSE Lcm(Head(s), LcmSeq(Tail(s)))

\* The integer unit of column j: the least common multiple of its denominators.
ColUnit(XR, j) == LcmSeq([i \in 1..Len(XR) |-> XR[i][j][2]])

\* XR in integer units.
IntMatrix(XR) ==
    LET unit == [j \in Cols4 |-> ColUnit(XR, j)]
    IN  [i \in 1..Len(XR) |->
            [j \in Cols4 |-> XR[i][j][1] * (unit[j] \div XR[i][j][2])]]

ColSum(XI, j) == SumSeq([i \in 1..Len(XI) |-> XI[i][j]])

ColSumSq(XI, j) == SumSeq([i \in 1..Len(XI) |-> XI[i][j] * XI[i][j]])

\* n^2 times the variance of each column.
VarN2(XI) ==
    [j \in Cols4 |-> Len(XI) * ColSumSq(XI, j) - ColSum(XI, j) * ColSum(XI, j)]

\* StandardScaler.fit: mean_ and var_ per column, in the units of the table.
FitScaler(XR) ==
    LET XI == IntMatrix(XR)
        n == Len(XR)
        v == VarN2(XI)
    IN  [exists |-> TRUE,
         unit |-> [j \in Cols4 |-> ColUnit(XR, j)],
         mean |-> [j \in Cols4 |-> Rat(ColSum(XI, j), n * ColUnit(XR, j))],
         var |-> [j \in Cols4 |->
                     Rat(v[j], n * n * ColUnit(XR, j) * ColUnit(XR, j))],
         n_samples_seen |-> n]

\* scaler.transform of one raw row x of the fitted table, in the units of the
\* table (the classifier measures distances with the weights W).
Transform(scaler, x) ==
    [j \in Cols4 |-> x[j][1] * (scaler.unit[j] \div x[j][2])]

\* The weights W of the standardized distance.
StdWeights(XI) ==
    LET v == VarN2(XI)
        l == LcmSeq(SelectSeq([j \in Cols4 |-> v[j]], LAMBDA x : x # 0))
    IN  [j \in Cols4 |-> IF v[j] = 0 THEN 0 ELSE l \div v[j]]

LcmV(XI) ==
    LET v == VarN2(XI)
    IN  LcmSeq(SelectSeq([j \in Cols4 |-> v[j]], LAMBDA x : x # 0))

\* W-weighted squared distance between two rows.
Dist2(W, u, v) ==
    SumSeq([j \in Cols4 |-> W[j] * (u[j] - v[j]) * (u[j] - v[j])])

\* The distinct rows of the matrix, each by the index of its first occurrence.
FirstOccurrences(XI) ==
    {i \in 1..Len(XI) : \A h \in 1..(i - 1) : XI[h] # XI[i]}

RECURSIVE SortInts(_)
SortInts(S) ==
    IF S = {} THEN <<>>
    ELSE LET m == CHOOSE x \in S : \A y \in S : x <= y
         IN  <<m>> \o SortInts(S \ {m})

\* Equal rows of X are at the same distance from every centre and so always
\* share a label: the iterations are run on the distinct rows (pts, in row
\* order), each counted as many times as it occurs (wts); of[i] is the
\* distinct row that row i equals.
DistinctRows(XI) ==
    LET first == SortInts(FirstOccurrences(XI))
        P == 1..Len(first)
    IN  [pts |-> [a \in P |-> XI[first[a]]],
         wts |-> [a \in P |-> Cardinality({i \in 1..Len(XI) : XI[i] = XI[first[a]]})],
         of |-> [i \in 1..Len(XI) |-> CHOOSE a \in P : XI[first[a]] = XI[i]]]

\* X_scaled = scaler.fit_transform(X): the matrix in integer units with the
\* weights W and the factor lcm of the standardized distance, and its distinct
\* rows.
Scale(XI) ==
    LET D == DistinctRows(XI)
    IN  [X |-> XI, W |-> StdWeights(XI), lcm |-> LcmV(XI),
         pts |-> D.pts, wts |-> D.wts, of |-> D.of]

\* A cluster centre is the sum S of its member rows and their number m.
\* m^2 times the W-weighted squared distance from row u to the centre S/m.
CentreDist2(W, u, c) ==
    SumSeq([j \in Cols4 |-> W[j] * (c.m * u[j] - c.S[j]) * (c.m * u[j] - c.S[j])])

\* E-step: each row goes to its nearest centre, the lowest index on a tie
\* (argmin).  Labels are 0-based.
AssignLabels(D, W, centres) ==
    LET k == Len(centres)
        P == 1..Len(D.pts)
        m2 == [c \in 1..k |-> centres[c].m * centres[c].m]
        d == [a \in P |-> [c \in 1..k |-> CentreDist2(W, D.pts[a], centres[c])]]
    IN  [a \in P |->
            (CHOOSE c \in 1..k :
                \A b \in 1..k :
                    /\ b < c => d[a][c] * m2[b] < d[a][b] * m2[c]
                    /\ b > c => d[a][c] * m2[b] <= d[a][b] * m2[c]) - 1]

\* Whether row a lies farther from its own centre than row h from its own.
Farther(D, W, labels, centres, a, h) ==
    LET ca == centres[labels[a] + 1]
        ch == centres[labels[h] + 1]
    IN  CentreDist2(W, D.pts[a], ca) * ch.m * ch.m
            > CentreDist2(W, D.pts[h], ch) * ca.m * ca.m

RECURSIVE RelocateEmpty(_, _, _, _, _, _)
\* _relocate_empty_clusters_dense: each centre without members is moved onto
\* one of the rows farthest from their own centres, which leaves its cluster.
\* taken[a] counts the rows equal to pts[a] already moved.
RelocateEmpty(D, W, labels, centres, sums, taken) ==
    LET empty == {c \in 1..Len(sums) : sums[c].m = 0}
    IN  IF empty = {} THEN sums
        ELSE LET e == CHOOSE c \in empty : \A c2 \in empty : c <= c2
                 cand == {a \in 1..Len(D.pts) : taken[a] < D.wts[a]}
                 far == CHOOSE a \in cand :
                            \A h \in cand \ {a} :
                                \/ Farther(D, W, labels, centres, a, h)
                                \/ (~Farther(D, W, labels, centres, h, a) /\ a < h)
                 o == labels[far] + 1
                 moved == [sums EXCEPT
                             ![o] = [S |-> [j \in Cols4 |-> sums[o].S[j] - D.pts[far][j]],
                                     m |-> sums[o].m - 1],
                             ![e] = [S |-> D.pts[far], m |-> 1]]
             IN  RelocateEmpty(D, W, labels, centres, moved,
                               [taken EXCEPT ![far] = taken[far] + 1])

\* The sum and the number of the rows labelled c.
ClusterSum(D, labels, c) ==
    LET P == 1..Len(D.pts)
    IN  [S |-> [j \in Cols4 |->
                   SumSeq([a \in P |-> IF labels[a] = c THEN D.wts[a] * D.pts[a][j] ELSE 0])],
         m |-> SumSeq([a \in P |-> IF labels[a] = c THEN D.wts[a] ELSE 0])]

\* M-step: a centre is the mean of its members.
UpdateCentres(D, W, labels, centres) ==
    LET sums == [c \in 1..Len(centres) |-> ClusterSum(D, labels, c - 1)]
    IN  RelocateEmpty(D, W, labels, centres, sums, [a \in 1..Len(D.pts) |-> 0])

RECURSIVE Lloyd(_, _, _, _)
\* Lloyd's iterations to strict convergence (the labels repeat).
Lloyd(D, W, centres, labels_old) ==
    LET labels == AssignLabels(D, W, centres)
    IN  IF labels = labels_old THEN labels
        ELSE Lloyd(D, W, UpdateCentres(D, W, labels, centres), labels)

\* The initial centres k-means++ can draw: k rows, pairwise distinct while
\* distinct rows are left (a row at distance 0 from a chosen centre has
\* probability 0).  Centres are numbered in row order.
InitCentreSets(D, k) ==
    LET P == 1..Len(D.pts)
    IN  IF Len(D.pts) <= k THEN {P}
        ELSE {I \in SUBSET P : Cardinality(I) = k}

CentresAt(D, I) ==
    LET idx == SortInts(I)
    IN  [c \in 1..Len(idx) |-> [S |-> D.pts[idx[c]], m |-> 1]]

\* The labels of the distinct rows that the fit can end with: n_init seeded
\* initialisations are run and the one of lowest inertia is kept, so the
\* result is the fixed point reached from one of the possible initialisations.
\* Which one depends on the random stream alone.
FixedPoints(D, W, k) ==
    {Lloyd(D, W, CentresAt(D, I), <<>>) : I \in InitCentreSets(D, k)}

\* The label vectors KMeans(n_clusters=k, random_state=42, n_init=10) can
\* return for the rows of X.
KMeansLabelings(Xs, k) ==
    {[i \in 1..Len(Xs.X) |-> l[Xs.of[i]]] : l \in FixedPoints(Xs, Xs.W, k)}

\* Sum over the clusters of the W-weighted squared distances to the mean.
WeightedInertia(D, W, labels) ==
    LET P == 1..Len(D.pts)
        used == SortInts({labels[a] : a \in P})
        One(c) ==
            LET s == ClusterSum(D, labels, c)
                Q == [j \in Cols4 |->
                         SumSeq([a \in P |-> IF labels[a] = c
                                             THEN D.wts[a] * D.pts[a][j] * D.pts[a][j]
                                             ELSE 0])]
            IN  Rat(SumSeq([j \in Cols4 |-> W[j] * (s.m * Q[j] - s.S[j] * s.S[j])]), s.m)
    IN  RSum([x \in 1..Len(used) |-> One(used[x])])

\* km.inertia_: the inertia in standardized units.
Inertia(Xs, labels) ==
    RMul(Rat(Len(Xs.X) * Len(Xs.X), Xs.lcm), WeightedInertia(Xs, Xs.W, labels))

\* Fault: the number of clusters is recorded in place of the inertia.
InertiasGrowing(Xs, k) == {RInt(k)}

\* The values float(km.inertia_) can take for k clusters.
KMeansInertias(Xs, k) == {Inertia(Xs, l) : l \in FixedPoints(Xs, Xs.W, k)}

---------------------------------------------------------------------------
(* Stage 05: train_test_split(test_size=0.2, random_state=42, stratify=y). *)

\* n_test = ceil(0.2 * n)
NTest(n) == (n + 4) \div 5

NTrain(n) == n - NTest(n)

Classes(y) == {y[i] : i \in 1..Len(y)}

Members(labels, c) == {i \in 1..Len(labels) : labels[i] = c}

ClassCount(y, c) == Cardinality(Members(y, c))

\* _approximate_mode: the train share of each class is its proportional share
\* rounded down, and the rows still missing go one each to the classes of
\* largest remainder, drawn at random among equal remainders.
TrainAllocations(y) ==
    LET n == Len(y)
        cls == SortInts(Classes(y))
        C == 1..Len(cls)
        cnt == [x \in C |-> ClassCount(y, cls[x])]
        fl == [x \in C |-> (cnt[x] * NTrain(n)) \div n]
        rem == [x \in C |-> (cnt[x] * NTrain(n)) % n]
        need == NTrain(n) - SumSeq(fl)
    IN  { [x \in C |-> IF x \in B THEN fl[x] + 1 ELSE fl[x]] :
            B \in {B \in SUBSET C :
                      /\ Cardinality(B) = need
                      /\ \A b \in B, c \in C \ B : rem[b] >= rem[c]} }

RECURSIVE TakeRows(_, _, _)
\* The ways to take a rows of one class for training, the class being the rows
\* equal to the distinct rows in P.  Rows with the same features are
\* interchangeable: the earlier one is taken first.
TakeRows(D, P, a) ==
    IF P = {} THEN (IF a = 0 THEN {{}} ELSE {})
    ELSE LET p == CHOOSE x \in P : \A z \in P : x <= z
             rows == SortInts({i \in 1..Len(D.of) : D.of[i] = p})
         IN  UNION {{{rows[x] : x \in 1..t} \cup R : R \in TakeRows(D, P \ {p}, a - t)} :
                      t \in 0..Min2(a, Len(rows))}

RECURSIVE TrainSetsOver(_, _, _, _, _)
TrainSetsOver(D, y, cls, alloc, x) ==
    IF x > Len(cls) THEN {{}}
    ELSE UNION {{T \cup R : R \in TrainSetsOver(D, y, cls, alloc, x + 1)} :
                  T \in TakeRows(D, {D.of[i] : i \in Members(y, cls[x])}, alloc[x])}

\* The training index sets the stratified shuffle can return.
StratifiedTrainSets(Xs, y) ==
    UNION {TrainSetsOver(Xs, y, cls, a, 1) :
             cls \in {SortInts(Classes(y))}, a \in TrainAllocations(y)}

\* Fault: a class of one member is let through.
SplitErrorSizesOnly(y) ==
    IF NTrain(Len(y)) < Cardinality(Classes(y)) THEN "train size below classes"
    ELSE IF NTest(Len(y)) < Cardinality(Classes(y)) THEN "test size below classes"
    ELSE ""

\* What the ValueError of the split says, "" when the split succeeds.
SplitError(y) ==
    LET n == Len(y)
        cls == Classes(y)
    IN  IF \E c \in cls : ClassCount(y, c) < 2 THEN "least populated class"
        ELSE IF NTrain(n) < Cardinality(cls) THEN "train size below classes"
        ELSE IF NTest(n) < Cardinality(cls) THEN "test size below classes"
        ELSE ""

---------------------------------------------------------------------------
(* Stage 05: KNeighborsClassifier(n_neighbors=5). *)

n_neighbors == 5

\* Fault: the classifier is fitted on every row, held-out rows included.
FitKnnAllRows(Xs, y, train) ==
    [exists |-> TRUE,
     X |-> Xs.X,
     y |-> y,
     W |-> Xs.W]

\* knn.fit(X_train, y_train): the classifier keeps the training rows.
FitKnn(Xs, y, train) ==
    LET idx == SortInts(train)
    IN  [exists |-> TRUE,
         X |-> [t \in 1..Len(idx) |-> Xs.X[idx[t]]],
         y |-> [t \in 1..Len(idx) |-> y[idx[t]]],
         W |-> Xs.W]

\* The sets of n_neighbors training rows nearest to u: all rows strictly nearer
\* than the n_neighbors-th distance, completed among the rows at that distance.
NeighbourSets(knn, u) ==
    LET T == 1..Len(knn.X)
        d == [t \in T |-> Dist2(knn.W, u, knn.X[t])]
        b == CHOOSE t \in T :
                 /\ Cardinality({s \in T : d[s] < d[t]}) < n_neighbors
                 /\ Cardinality({s \in T : d[s] <= d[t]}) >= n_neighbors
        sure == {s \in T : d[s] < d[b]}
        tied == {s \in T : d[s] = d[b]}
    IN  {sure \cup R : R \in {R \in SUBSET tied :
                                 Cardinality(R) = n_neighbors - Cardinality(sure)}}

Votes(knn, N, c) == Cardinality({s \in N : knn.y[s] = c})

\* The labels with the most votes among the neighbours N.
Winners(knn, N) ==
    {c \in Classes(knn.y) : \A c2 \in Classes(knn.y) : Votes(knn, N, c) >= Votes(knn, N, c2)}

\* Every label knn.predict can return for u, over the ways equal distances and
\* equal votes can be resolved.
KnnPredictions(knn, u) == UNION {Winners(knn, N) : N \in NeighbourSets(knn, u)}

\* knn.predict for u: among rows at equal distance the earlier training row is
\* taken, among labels with equal votes the smallest.
KnnPredict(knn, u) ==
    LET T == 1..Len(knn.X)
        d == [t \in T |-> Dist2(knn.W, u, knn.X[t])]
        rank == [t \in T |-> Cardinality({s \in T : d[s] < d[t] \/ (d[s] = d[t] /\ s < t)})]
        N == {t \in T : rank[t] < n_neighbors}
        win == Winners(knn, N)
    IN  CHOOSE c \in win : \A c2 \in win : c <= c2

\* accuracy_score and confusion_matrix on the held-out rows.  The matrix is
\* indexed by the sorted labels that occur in y_test or in y_pred.
Metrics(y_test, y_pred) ==
    LET labels == SortInts(Classes(y_test) \cup Classes(y_pred))
        hits == Cardinality({i \in 1..Len(y_test) : y_test[i] = y_pred[i]})
    IN  [exists |-> TRUE,
         accuracy |-> Rat(hits, Len(y_test)),
         confusion_matrix |->
             [a \in 1..Len(labels) |->
                 [b \in 1..Len(labels) |->
                     Cardinality({i \in 1..Len(y_test) :
                                     y_test[i] = labels[a] /\ y_pred[i] = labels[b]})]]]

---------------------------------------------------------------------------
(* Stage 05: 05_clustering.run, step by step. *)

Running(stage) == Outcome(stage, "running", "", <<>>, {})

\* print + return when FILE_SCORES is absent: no exception leaves run().
Returned(stage) == Outcome(stage, "returned", "", <<>>, {})

SetField(r, f, v) == [x \in DOMAIN r \cup {f} |-> IF x = f THEN v ELSE r[x]]

\* Fault: the column is rebuilt even when the table has it.
WithNewGenShareAlways(tbl) ==
    Table(tbl.cols \cup {"new_gen_share"},
          [i \in 1..Len(tbl.rows) |->
              SetField(tbl.rows[i], "new_gen_share", tbl.rows[i].modernity_index)])

\* if "new_gen_share" not in df.columns: df["new_gen_share"] = df["modernity_index"]
WithNewGenShare(tbl) ==
    IF "new_gen_share" \in tbl.cols THEN tbl
    ELSE Table(tbl.cols \cup {"new_gen_share"},
               [i \in 1..Len(tbl.rows) |->
                   SetField(tbl.rows[i], "new_gen_share", tbl.rows[i].modernity_index)])

\* Fault: the last row is lost.
WithClustersShort(rows, clusters) ==
    [i \in 1..(Len(rows) - 1) |-> SetField(rows[i], "cluster", clusters[i])]

\* df_clean["cluster"] = clusters
WithClusters(rows, clusters) ==
    [i \in 1..Len(rows) |-> SetField(rows[i], "cluster", clusters[i])]

n_clusters == 4

\* Fault: range(1, 9).
ElbowShort == 9 - 1

\* range(1, 10)
ElbowLast == 9

NoLocals == [k |-> 0]

\* An exception leaves run(): its locals are gone, nothing is undone.
Fail05(r, out) ==
    /\ pc' = [pc EXCEPT ![r] = "idle"]
    /\ loc' = [loc EXCEPT ![r] = NoLocals]
    /\ Finish(r, "05", out)

\* run() goes on to its next statement.
Goto05(r, at, locals) ==
    /\ pc' = [pc EXCEPT ![r] = at]
    /\ loc' = [loc EXCEPT ![r] = locals]
    /\ UNCHANGED <<last, ran, main_pc>>

\* Lines 52-86: read, default new_gen_share, filter, scale, KMeans(4).
Stage05_run(r) ==
    /\ MayStart(r, "05")
    /\ IF ~scoresFile.exists
       THEN /\ Finish(r, "05", Returned("05"))
            /\ UNCHANGED <<pc, loc>>
       ELSE IF MissingCols(<<"fleet_size", "diversity_score", "modernity_index">>,
                           scoresFile.cols) # <<>>
       THEN /\ Finish(r, "05", MissingColumns("05", "ensure_required_cols",
                    MissingCols(<<"fleet_size", "diversity_score", "modernity_index">>,
                                scoresFile.cols),
                    {}))
            /\ UNCHANGED <<pc, loc>>
       ELSE \E df \in {WithNewGenShare(read_csv(scoresFile))} :
            \E df_clean \in {FleetFilter(df.rows)} :
            \E X \in {FeatureMatrix(df_clean)} :
               IF Len(df_clean) = 0
               THEN /\ Finish(r, "05", RaisedWith("05", "ValueError",
                                       "StandardScaler.fit_transform", "no rows"))
                    /\ UNCHANGED <<pc, loc>>
               ELSE IF Len(df_clean) < n_clusters
               THEN /\ Finish(r, "05", RaisedWith("05", "ValueError",
                                       "KMeans.fit_predict", "fewer rows than clusters"))
                    /\ UNCHANGED <<pc, loc>>
               ELSE \E X_scaled \in {Scale(IntMatrix(X))} :
                    \E clusters \in KMeansLabelings(X_scaled, n_clusters) :
                       /\ loc' = [loc EXCEPT ![r] =
                                 [cols |-> df.cols,
                                  df_clean |-> WithClusters(df_clean, clusters),
                                  X_scaled |-> X_scaled,
                                  scaler |-> FitScaler(X),
                                  clusters |-> clusters,
                                  k |-> 1,
                                  inertia |-> [k |-> <<>>, inertia |-> <<>>]]]
                       /\ pc' = [pc EXCEPT ![r] = "elbow"]
                       /\ last' = [last EXCEPT ![r] = Running("05")]
                       /\ ran' = [ran EXCEPT ![r] = @ \cup {"05"}]
                       /\ UNCHANGED main_pc
    /\ UNCHANGED <<files, app>>

\* Lines 90-94: one turn of the elbow loop.
Stage05_elbow(r) ==
    /\ pc[r] = "elbow"
    /\ IF Len(loc[r].X_scaled.X) < loc[r].k
       THEN Fail05(r, RaisedWith("05", "ValueError", "KMeans.fit",
                                 "fewer rows than clusters"))
       ELSE \E v \in KMeansInertias(loc[r].X_scaled, loc[r].k) :
               Goto05(r, IF loc[r].k = ElbowLast THEN "split" ELSE "elbow",
                      [loc[r] EXCEPT
                          !.inertia = [k |-> Append(@.k, loc[r].k),
                                       inertia |-> Append(@.inertia, v)],
                          !.k = @ + 1])
    /\ UNCHANGED <<files, app>>

\* Fault: the scaler is saved before the split is attempted.
Stage05_splitAfterSave(r) ==
    /\ pc[r] = "split"
    /\ scalerFile' = loc[r].scaler
    /\ writer' = [writer EXCEPT !.scaler = r]
    /\ IF SplitError(loc[r].clusters) # ""
       THEN Fail05(r, RaisedWith("05", "ValueError", "train_test_split",
                                 SplitError(loc[r].clusters)))
       ELSE \E train \in StratifiedTrainSets(loc[r].X_scaled, loc[r].clusters) :
               Goto05(r, "knn",
                      SetField(SetField(loc[r], "train", train),
                               "test", (1..Len(loc[r].clusters)) \ train))
    /\ UNCHANGED <<fleetFile, featuresFile, scoresFile, clustersFile, knnFile,
                   elbowFile, metricsFile, app>>

\* Lines 97-100.
Stage05_split(r) ==
    /\ pc[r] = "split"
    /\ IF SplitError(loc[r].clusters) # ""
       THEN Fail05(r, RaisedWith("05", "ValueError", "train_test_split",
                                 SplitError(loc[r].clusters)))
       ELSE \E train \in StratifiedTrainSets(loc[r].X_scaled, loc[r].clusters) :
               Goto05(r, "knn",
                      SetField(SetField(loc[r], "train", train),
                               "test", (1..Len(loc[r].clusters)) \ train))
    /\ UNCHANGED <<files, app>>

\* Lines 102-109: fit on the training rows, predict and score the held-out rows.
Stage05_knn(r) ==
    /\ pc[r] = "knn"
    /\ IF Cardinality(loc[r].train) < n_neighbors
       THEN Fail05(r, RaisedWith("05", "ValueError", "KNeighborsClassifier.predict",
                                 "fewer training rows than neighbours"))
       ELSE \E knn \in {FitKnn(loc[r].X_scaled, loc[r].clusters, loc[r].train)} :
            \E tst \in {SortInts(loc[r].test)} :
            \E y_test \in {[i \in 1..Len(tst) |-> loc[r].clusters[tst[i]]]} :
            \E y_pred \in {[i \in 1..Len(tst) |->
                               KnnPredict(knn, loc[r].X_scaled.X[tst[i]])]} :
               Goto05(r, "pca",
                      SetField(SetField(loc[r], "knn", knn),
                               "metrics", Metrics(y_test, y_pred)))
    /\ UNCHANGED <<files, app>>

\* Lines 112-115: the two projection columns are added; their values (real
\* numbers) are not modelled.
Stage05_pca(r) ==
    /\ pc[r] = "pca"
    /\ Goto05(r, "to_csv", [loc[r] EXCEPT !.cols = @ \cup {"cluster", "pca_1", "pca_2"}])
    /\ UNCHANGED <<files, app>>

\* Fault: a failed write takes back the clusters table.
WriteFailedUndo(r, by) ==
    /\ Fail05(r, RaisedWith("05", "OSError", by, "write failed"))
    /\ clustersFile' = NoTable
    /\ UNCHANGED <<fleetFile, featuresFile, scoresFile, scalerFile, knnFile,
                   elbowFile, metricsFile, writer>>

\* The write fails when the file is opened: the exception leaves run() and no
\* file is touched.
WriteFailed(r, by) ==
    /\ Fail05(r, RaisedWith("05", "OSError", by, "write failed"))
    /\ UNCHANGED files

\* Line 118.
Stage05_write_clusters(r) ==
    /\ pc[r] = "to_csv"
    /\ \/ /\ clustersFile' = Table(loc[r].cols, loc[r].df_clean)
          /\ writer' = [writer EXCEPT !.clusters = r]
          /\ Goto05(r, "dump_scaler", loc[r])
          /\ UNCHANGED <<fleetFile, featuresFile, scoresFile, scalerFile, knnFile,
                         elbowFile, metricsFile>>
       \/ WriteFailed(r, "to_csv")
    /\ UNCHANGED app

\* Line 120.
Stage05_write_scaler(r) ==
    /\ pc[r] = "dump_scaler"
    /\ \/ /\ scalerFile' = loc[r].scaler
          /\ writer' = [writer EXCEPT !.scaler = r]
          /\ Goto05(r, "dump_knn", loc[r])
          /\ UNCHANGED <<fleetFile, featuresFile, scoresFile, clustersFile, knnFile,
                         elbowFile, metricsFile>>
       \/ WriteFailed(r, "joblib.dump(scaler)")
    /\ UNCHANGED app

\* Line 121.
Stage05_write_knn(r) ==
    /\ pc[r] = "dump_knn"
    /\ \/ /\ knnFile' = loc[r].knn
          /\ writer' = [writer EXCEPT !.knn = r]
          /\ Goto05(r, "dump_elbow", loc[r])
          /\ UNCHANGED <<fleetFile, featuresFile, scoresFile, clustersFile, scalerFile,
                         elbowFile, metricsFile>>
       \/ WriteFailed(r, "joblib.dump(knn)")
    /\ UNCHANGED app

\* Lines 123-124.
Stage05_write_elbow(r) ==
    /\ pc[r] = "dump_elbow"
    /\ \/ /\ elbowFile' = [exists |-> TRUE, k |-> loc[r].inertia.k,
                          inertia |-> loc[r].inertia.inertia]
          /\ writer' = [writer EXCEPT !.elbow = r]
          /\ Goto05(r, "dump_metrics", loc[r])
          /\ UNCHANGED <<fleetFile, featuresFile, scoresFile, clustersFile, scalerFile,
                         knnFile, metricsFile>>
       \/ WriteFailed(r, "open(elbow_data.json)")
    /\ UNCHANGED app

\* Lines 126-127, and the return of run().
Stage05_write_metrics(r) ==
    /\ pc[r] = "dump_metrics"
    /\ \/ /\ metricsFile' = loc[r].metrics
          /\ writer' = [writer EXCEPT !.metrics = r]
          /\ pc' = [pc EXCEPT ![r] = "idle"]
          /\ loc' = [loc EXCEPT ![r] = NoLocals]
          /\ Finish(r, "05", Ok("05"))
          /\ UNCHANGED <<fleetFile, featuresFile, scoresFile, clustersFile, scalerFile,
                         knnFile, elbowFile>>
       \/ WriteFailed(r, "open(knn_metrics.json)")
    /\ UNCHANGED app

---------------------------------------------------------------------------
(* A features table found on disk when stage 04 is started on its own: it   *)
(* need not come from stage 03.                                            *)

\* The i-th airline name: one lower-case letter.
AirlineName(i) == <<Alphabet[3 + i]>>

FeatureRow(fleet, div, mod) ==
    [airline_name |-> <<>>, country |-> FR, region |-> EU,
     avg_entry_year |-> RInt(2010), modern_count_2015 |-> 0,
     modern_count_2010 |-> 0, fleet_size |-> fleet, diversity_score |-> div,
     pct_modern_2015 |-> RInt(0), pct_modern_2010 |-> RInt(0),
     modernity_index |-> mod]

\* Light airline profiles.
LightProfiles ==
    << FeatureRow(5, 1, RInt(0)), FeatureRow(6, 1, RInt(0)), FeatureRow(15, 1, RInt(0)) >>

\* The heavy profile, present BigCopies times or not at all.
HeavyProfile == FeatureRow(9, 1, RInt(0))

\* Rows with a score that is malformed, out of [0,1], or strictly inside it.
OddProfiles ==
    << FeatureRow(4, 2, BadText), FeatureRow(7, 1, Rat(6, 5)),
       FeatureRow(5, 1, Rat(-1, 2)), FeatureRow(8, 2, Rat(1, 2)),
       FeatureRow(6, 1, NaN), FeatureRow(5, 1, BadText) >>

Copies(r, n) == [i \in 1..n |-> r]

Named(rows) == [i \in 1..Len(rows) |-> [rows[i] EXCEPT !.airline_name = AirlineName(i)]]

\* c[i] copies of the i-th light profile, h of the heavy one, the odd rows O.
FeatureTable(c, h, O) ==
    Table(FeatureCols,
          Named(Copies(LightProfiles[1], c[1]) \o Copies(LightProfiles[2], c[2])
                \o Copies(LightProfiles[3], c[3]) \o Copies(HeavyProfile, h)
                \o [i \in 1..Len(SortInts(O)) |-> OddProfiles[SortInts(O)[i]]]))

\* A table holds no odd row or one.
OddSets == {{}} \cup {{o} : o \in 1..Len(OddProfiles)}

\* Few airlines: each light profile present or not.
SmallFeatureTables ==
    {FeatureTable(c, 0, O) : c \in [1..3 -> {0, 1}], O \in OddSets}

\* Many airlines: every light profile MaxCopies times, the heavy one BigCopies
\* times.
BigFeatureTables ==
    {FeatureTable(<<MaxCopies, MaxCopies, MaxCopies>>, BigCopies, O) : O \in OddSets}

\* tbl without the columns C.
WithoutCols(tbl, C) ==
    Table(tbl.cols \ C,
          [i \in 1..Len(tbl.rows) |->
              [f \in DOMAIN tbl.rows[i] \ C |-> tbl.rows[i][f]]])

\* Features tables that lack a column stage 04 or stage 05 asks for.
ShortFeatureTables ==
    {WithoutCols(FeatureTable(<<1, 1, 1>>, 0, {}), C) :
        C \in {{"fleet_size"}, {"modernity_index"}, {"fleet_size", "modernity_index"},
               {"diversity_score"}}}

\* tbl with a new_gen_share column of its own: a half for the airlines of the
\* heavy profile, a quarter for the others.
WithShare(tbl) ==
    Table(tbl.cols \cup {"new_gen_share"},
          [i \in 1..Len(tbl.rows) |->
              SetField(tbl.rows[i], "new_gen_share",
                       IF tbl.rows[i].fleet_size = HeavyProfile.fleet_size
                       THEN Rat(1, 2) ELSE Rat(1, 4))])

\* Features tables that come with a new_gen_share column.
ShareFeatureTables ==
    {WithShare(FeatureTable(<<MaxCopies, MaxCopies, MaxCopies>>, BigCopies, O)) :
        O \in {{}, {4}}}

\* A features table in which the country of the first airline is written NA.
MarkerFeatureTables ==
    {Table(FeatureCols,
           [i \in 1..3 |->
               IF i = 1
               THEN [FeatureTable(<<1, 1, 1>>, 0, {}).rows[i] EXCEPT !.country = <<"N", "A">>]
               ELSE FeatureTable(<<1, 1, 1>>, 0, {}).rows[i]])}

ExtFeatureTables ==
    SmallFeatureTables \cup BigFeatureTables \cup ShortFeatureTables
        \cup ShareFeatureTables \cup MarkerFeatureTables

---------------------------------------------------------------------------
(* An aircraft table on which the whole pipeline succeeds: ProfileCopies    *)
(* airlines whose MIN_FLEET_SIZE aircraft all entered service in 2020 and   *)
(* as many whose aircraft all entered service in 2000.                      *)

ProfileAircraft(i) ==
    AircraftRecord(AirlineName(i), FR, EU,
                   RInt(IF i <= ProfileCopies THEN 2020 ELSE 2000), <<"a">>, <<"x">>)

TwoProfileFleet ==
    Table(RequiredFleetCols \cup {"aircraft_type", "model_key"},
          [x \in 1..(2 * ProfileCopies * MIN_FLEET_SIZE) |->
              ProfileAircraft(((x - 1) \div MIN_FLEET_SIZE) + 1)])

---------------------------------------------------------------------------
(* app.py: the cached load and the simulator. *)

NoApp == [state |-> "absent"]

AppStarted == [state |-> "started"]

\* except FileNotFoundError: return None, None, None, None, None
AppNoData == [state |-> "no data"]

\* load_all_data, run once per process (st.cache_data).
App_load ==
    /\ app.state = "started"
    /\ app' = IF /\ clustersFile.exists /\ elbowFile.exists /\ metricsFile.exists
                 /\ knnFile.exists /\ scalerFile.exists
              THEN [state |-> "loaded", df |-> clustersFile, elbow |-> elbowFile,
                    knn_metrics |-> metricsFile, knn_model |-> knnFile,
                    scaler |-> scalerFile]
              ELSE AppNoData
    /\ UNCHANGED <<files, main_pc, pc, loc, last, ran>>

\* The values of the four widgets tried.
SimulatorInputs ==
    { [val_fleet |-> 100, val_div |-> 1, val_mod |-> 0, val_ng |-> 1],
      [val_fleet |-> 5, val_div |-> 0, val_mod |-> 1, val_ng |-> 1] }

\* Fault: the index and the share of new-generation aircraft are exchanged.
UserDataSwapped(w) ==
    << RInt(w.val_fleet), RInt(w.val_div), RInt(w.val_ng), RInt(w.val_mod) >>

\* user_data = np.array([[val_fleet, val_div, val_mod, val_ng]])
UserData(w) ==
    << RInt(w.val_fleet), RInt(w.val_div), RInt(w.val_mod), RInt(w.val_ng) >>

\* The button "Prédire le Cluster", lines 231-234.
App_predict ==
    /\ app.state \in {"loaded", "predicted"}
    /\ \E w \in SimulatorInputs :
       \E user_data \in {UserData(w)} :
       \E user_data_scaled \in {Transform(app.scaler, user_data)} :
       \E prediction \in KnnPredictions(app.knn_model, user_data_scaled) :
          app' = [state |-> "predicted", df |-> app.df, elbow |-> app.elbow,
                  knn_metrics |-> app.knn_metrics, knn_model |-> app.knn_model,
                  scaler |-> app.scaler, widgets |-> w,
                  user_data_scaled |-> user_data_scaled,
                  prediction |-> prediction]
    /\ UNCHANGED <<files, main_pc, pc, loc, last, ran>>

---------------------------------------------------------------------------
(* Specification. *)

NoLast == Outcome("", "", "", <<>>, {})

NoWriter ==
    [features |-> "", scores |-> "", clusters |-> "", scaler |-> "", knn |-> "",
     elbow |-> "", metrics |-> ""]

\* The scripts are started by hand, on an aircraft table or on a features
\* table found on disk.
ByHand ==
    /\ \/ fleetFile \in FleetTables /\ featuresFile = NoTable
       \/ fleetFile = NoTable /\ featuresFile \in ExtFeatureTables
    /\ main_pc = [r \in Runs |-> IF r = "A" THEN "alone" ELSE "absent"]
    /\ app = NoApp

\* main.py is run once, the application being started or not.
OnePipeline ==
    /\ \/ fleetFile \in FleetTables /\ featuresFile = NoTable /\ app = NoApp
       \/ fleetFile = NoTable /\ featuresFile \in SmallFeatureTables /\ app = NoApp
       \/ fleetFile = TwoProfileFleet /\ featuresFile = NoTable
          /\ app \in {NoApp, AppStarted}
    /\ main_pc = [r \in Runs |-> IF r = "A" THEN "03" ELSE "absent"]

\* main.py is run twice at the same time on the same directories.
TwoPipelines ==
    /\ fleetFile = TwoProfileFleet
    /\ featuresFile = NoTable
    /\ main_pc = [r \in Runs |-> "03"]
    /\ app = NoApp

Init ==
    /\ ByHand \/ OnePipeline \/ TwoPipelines
    /\ scoresFile = NoTable
    /\ clustersFile = NoTable
    /\ scalerFile = NoArtifact
    /\ knnFile = NoArtifact
    /\ elbowFile = NoArtifact
    /\ metricsFile = NoArtifact
    /\ writer = NoWriter
    /\ pc = [r \in Runs |-> "idle"]
    /\ loc = [r \in Runs |-> NoLocals]
    /\ last = [r \in Runs |-> NoLast]
    /\ ran = [r \in Runs |-> {}]

Next ==
    \/ \E r \in Runs :
          \/ Stage03_main(r)
          \/ Stage04_main(r)
          \/ Stage05_run(r)
          \/ Stage05_elbow(r)
          \/ Stage05_split(r)
          \/ Stage05_knn(r)
          \/ Stage05_pca(r)
          \/ Stage05_write_clusters(r)
          \/ Stage05_write_scaler(r)
          \/ Stage05_write_knn(r)
          \/ Stage05_write_elbow(r)
          \/ Stage05_write_metrics(r)
    \/ App_load
    \/ App_predict

Spec == Init /\ [][Next]_vars

---------------------------------------------------------------------------
(* Properties. *)

\* The features table on disk was written by stage 03: it is absent initially
\* whenever the aircraft table is present.
FromStage03 == fleetFile.exists /\ featuresFile.exists

RowIdx(tbl) == 1..Len(tbl.rows)

Names(rows) == {rows[i].airline_name : i \in 1..Len(rows)}

\* q is a number of [0,1].
InUnit(q) == q[2] # 0 /\ RLeq(RInt(0), q) /\ RLeq(q, RInt(1))

\* C1: in every row of the features table written by stage 03, of the scores
\* table written by stage 04 and of the clusters table written by stage 05,
\* modernity_index is a number of [0,1], whatever the entry years of the
\* aircraft rows and whatever the features table stage 04 was given.
C1_ModernityInUnit ==
    /\ FromStage03 =>
          \A i \in RowIdx(featuresFile) : InUnit(featuresFile.rows[i].modernity_index)
    /\ scoresFile.exists =>
          \A i \in RowIdx(scoresFile) : InUnit(scoresFile.rows[i].modernity_index)
    /\ clustersFile.exists =>
          \A i \in RowIdx(clustersFile) : InUnit(clustersFile.rows[i].modernity_index)

\* Stage 03 and stage 04 have run on aircraft rows with entry years 9999 and
\* -50, and the airline they belong to is scored strictly between 0 and 1.
C1_Witness ==
    /\ FromStage03
    /\ scoresFile.exists
    /\ \E i \in RowIdx(fleetFile) : fleetFile.rows[i].entry_year = RInt(9999)
    /\ \E i \in RowIdx(fleetFile) : fleetFile.rows[i].entry_year = RInt(-50)
    /\ \E i \in RowIdx(scoresFile) :
          /\ RLess(RInt(0), scoresFile.rows[i].modernity_index)
          /\ RLess(scoresFile.rows[i].modernity_index, RInt(1))

\* The aircraft rows counted for airline X: the name, surrounding blanks
\* stripped, is X, and entry_year parses as a number.
NamedAndDated(r, X) ==
    /\ Strip(r.airline_name) = X
    /\ r.entry_year[2] # 0

Present(text) == ~IsNA(text) /\ Strip(text) # <<>>

\* C2 as stated: fleet_size of airline X is the number of aircraft rows of X
\* that have a region and a numeric entry_year; nothing else removes a row.
C2_RegionYearOnly ==
    FromStage03 =>
        \A i \in RowIdx(featuresFile) :
            featuresFile.rows[i].fleet_size =
                Cardinality({n \in RowIdx(fleetFile) :
                    /\ NamedAndDated(fleetFile.rows[n], featuresFile.rows[i].airline_name)
                    /\ Present(fleetFile.rows[n].region)})

\* C2, amended: fleet_size of airline X is the number of aircraft rows whose
\* stripped airline_name is X, whose entry_year parses as a number and whose
\* country and region are both present and not blank.
C2_FleetSizeCountsSurvivors ==
    FromStage03 =>
        \A i \in RowIdx(featuresFile) :
            featuresFile.rows[i].fleet_size =
                Cardinality({n \in RowIdx(fleetFile) :
                    /\ NamedAndDated(fleetFile.rows[n], featuresFile.rows[i].airline_name)
                    /\ Present(fleetFile.rows[n].region)
                    /\ Present(fleetFile.rows[n].country)})

\* An airline is counted with a row written with a leading blank, while a row
\* of it without country and a row with an unparseable entry_year are left out.
C2_Witness ==
    /\ FromStage03
    /\ \E i \in RowIdx(featuresFile) :
          LET X == featuresFile.rows[i].airline_name
          IN  /\ featuresFile.rows[i].fleet_size >= 2
              /\ \E n \in RowIdx(fleetFile) :
                    /\ fleetFile.rows[n].airline_name # X
                    /\ NamedAndDated(fleetFile.rows[n], X)
                    /\ Present(fleetFile.rows[n].country)
              /\ \E n \in RowIdx(fleetFile) :
                    /\ NamedAndDated(fleetFile.rows[n], X)
                    /\ IsNA(fleetFile.rows[n].country)
              /\ \E n \in RowIdx(fleetFile) :
                    /\ Strip(fleetFile.rows[n].airline_name) = X
                    /\ fleetFile.rows[n].entry_year[2] = 0

\* The names, as stage 03 normalises them, of the airlines with at least one
\* aircraft row that reaches the aggregation.  A row without airline_name
\* belongs to no airline.
SurvivingNames ==
    {Strip(fleetFile.rows[n].airline_name) : n \in
        {n \in RowIdx(fleetFile) :
            /\ fleetFile.rows[n].entry_year[2] # 0
            /\ Present(fleetFile.rows[n].region)
            /\ Present(fleetFile.rows[n].country)}} \ {NA}

\* C3: the features table written by stage 03 has exactly one row for each
\* airline name with at least one surviving aircraft row, none for any other
\* name, and fleet_size >= 1 in every row.
C3_OneRowPerAirline ==
    FromStage03 =>
        /\ Names(featuresFile.rows) = SurvivingNames
        /\ Len(featuresFile.rows) = Cardinality(SurvivingNames)
        /\ \A i \in RowIdx(featuresFile) : featuresFile.rows[i].fleet_size >= 1

\* Airline A has a row with two aircraft or more, airline B has aircraft rows
\* and all of them were dropped: B has no row.
C3_Witness ==
    /\ FromStage03
    /\ \E i \in RowIdx(featuresFile) :
          /\ featuresFile.rows[i].airline_name = <<"A">>
          /\ featuresFile.rows[i].fleet_size >= 2
    /\ \E n \in RowIdx(fleetFile) : fleetFile.rows[n].airline_name = <<"B">>
    /\ <<"B">> \notin Names(featuresFile.rows)

\* The airlines at or above the threshold in the features table.
AtThreshold ==
    {featuresFile.rows[i].airline_name : i \in
        {i \in RowIdx(featuresFile) : featuresFile.rows[i].fleet_size >= 5}}

\* C4: the airlines of the scores table, the airlines given a cluster id and
\* the airlines of the clusters table are exactly the airlines whose fleet_size
\* in the features table is >= 5.
C4_ThresholdMembership ==
    /\ scoresFile.exists => Names(scoresFile.rows) = AtThreshold
    /\ \A r \in Runs : pc[r] # "idle" => Names(loc[r].df_clean) = AtThreshold
    /\ clustersFile.exists =>
          /\ Names(clustersFile.rows) = AtThreshold
          /\ \A i \in RowIdx(clustersFile) : "cluster" \in DOMAIN clustersFile.rows[i]

\* The clusters table is written; the features table holds an airline of 4
\* aircraft, absent from scores and clusters, and one of 5, present in both.
C4_Witness ==
    /\ clustersFile.exists
    /\ \E i \in RowIdx(featuresFile) :
          /\ featuresFile.rows[i].fleet_size = 4
          /\ featuresFile.rows[i].airline_name \notin Names(scoresFile.rows)
          /\ featuresFile.rows[i].airline_name \notin Names(clustersFile.rows)
    /\ \E i \in RowIdx(featuresFile) :
          /\ featuresFile.rows[i].fleet_size = 5
          /\ featuresFile.rows[i].airline_name \in Names(scoresFile.rows)
          /\ featuresFile.rows[i].airline_name \in Names(clustersFile.rows)

\* The score stage 04 must write for the numeric score m of the features table.
Clamped(m) ==
    IF RLess(RInt(1), m) THEN RInt(1)
    ELSE IF RLess(m, RInt(0)) THEN RInt(0)
    ELSE m

\* C5: for every airline stage 04 keeps whose modernity_index in the features
\* table is a number, the scores table holds 1 if that number is above 1,
\* 0 if it is below 0, and the number itself otherwise.
C5_ClampInStage04 ==
    scoresFile.exists =>
        \A i \in RowIdx(featuresFile) :
            (/\ featuresFile.rows[i].fleet_size >= 5
             /\ featuresFile.rows[i].modernity_index[2] # 0) =>
                \E n \in RowIdx(scoresFile) :
                    /\ scoresFile.rows[n].airline_name = featuresFile.rows[i].airline_name
                    /\ scoresFile.rows[n].modernity_index =
                           Clamped(featuresFile.rows[i].modernity_index)

\* Stage 04 has written 1 for an airline whose features row holds 6/5.
C5_Witness ==
    /\ scoresFile.exists
    /\ \E i \in RowIdx(featuresFile) :
          /\ featuresFile.rows[i].modernity_index = Rat(6, 5)
          /\ \E n \in RowIdx(scoresFile) :
                /\ scoresFile.rows[n].airline_name = featuresFile.rows[i].airline_name
                /\ scoresFile.rows[n].modernity_index = RInt(1)

\* The number of rows labelled c, for c = 0, 1, 2, 3.
ClusterCounts(y) == [c \in 0..3 |-> Cardinality({i \in 1..Len(y) : y[i] = c})]

\* C6: once stage 05 has clustered, every row that entered carries one cluster
\* id of 0..3 and the four counts sum to the number of rows that entered; the
\* clusters table holds the rows of the scores table, one for one and in order,
\* each with its id.
C6_EveryRowOneCluster ==
    /\ \A r \in Runs : pc[r] # "idle" =>
          /\ Len(loc[r].clusters) = Len(loc[r].X_scaled.X)
          /\ Len(loc[r].df_clean) = Len(loc[r].X_scaled.X)
          /\ Len(loc[r].df_clean) = Len(scoresFile.rows)
          /\ \A i \in 1..Len(loc[r].df_clean) :
                /\ loc[r].clusters[i] \in 0..3
                /\ loc[r].df_clean[i].cluster = loc[r].clusters[i]
                /\ loc[r].df_clean[i].airline_name = scoresFile.rows[i].airline_name
          /\ SumSeq([c \in 1..4 |-> ClusterCounts(loc[r].clusters)[c - 1]])
                = Len(loc[r].X_scaled.X)
    /\ clustersFile.exists =>
          /\ Len(clustersFile.rows) = Len(scoresFile.rows)
          /\ \A i \in RowIdx(clustersFile) :
                /\ clustersFile.rows[i].cluster \in 0..3
                /\ clustersFile.rows[i].airline_name = scoresFile.rows[i].airline_name
          /\ SumSeq([c \in 1..4 |->
                 ClusterCounts([i \in RowIdx(clustersFile) |-> clustersFile.rows[i].cluster])[c - 1]])
                = Len(scoresFile.rows)

\* The clusters table is written and the four ids are all in use.
C6_Witness ==
    /\ clustersFile.exists
    /\ {clustersFile.rows[i].cluster : i \in RowIdx(clustersFile)} = 0..3

\* The three files the simulator loads were written by stage 05.
Persisted == clustersFile.exists /\ scalerFile.exists /\ knnFile.exists

\* The raw four features of row i of the clusters table.
RawFeatures(i) == FeatureMatrix(clustersFile.rows)[i]

\* C8 as stated: for every row of the clusters table, the persisted scaler
\* followed by the persisted classifier returns the row's recorded cluster id,
\* however equal distances and equal votes are resolved.
C8_RoundTrip ==
    Persisted =>
        \A i \in RowIdx(clustersFile) :
            clustersFile.rows[i].cluster
                \in KnnPredictions(knnFile, Transform(scalerFile, RawFeatures(i)))

\* C9: the elbow file holds k = 1, 2, ..., 9 and nine inertia values; when it
\* has just been written, its i-th value is an inertia that a fit from scratch
\* with i clusters reaches on the standardized matrix of the run.
C9_ElbowSequences ==
    /\ elbowFile.exists =>
          /\ elbowFile.k = [i \in 1..9 |-> i]
          /\ Len(elbowFile.inertia) = 9
    /\ \A r \in Runs : pc[r] = "dump_metrics" =>
          \A i \in 1..9 : elbowFile.inertia[i] \in KMeansInertias(loc[r].X_scaled, i)

\* The elbow file has just been written, with a positive inertia for k = 1
\* and inertia 0 for k = 9.
C9_Witness ==
    /\ elbowFile.exists
    /\ pc["A"] = "dump_metrics"
    /\ RLess(RInt(0), elbowFile.inertia[1])
    /\ elbowFile.inertia[9] = RInt(0)

HeldOutIds(r) == {loc[r].clusters[i] : i \in loc[r].test}

\* C11: the confusion matrix stage 05 persists is square, its dimension is the
\* number of distinct true cluster ids among the held-out rows, also when a
\* held-out row is predicted an id that no held-out row has, and the
\* persisted accuracy is a number of [0,1].
C11_ConfusionDimension ==
    /\ \A r \in Runs : pc[r] = "dump_metrics" =>
          /\ Len(loc[r].metrics.confusion_matrix) = Cardinality(HeldOutIds(r))
          /\ \A a \in 1..Len(loc[r].metrics.confusion_matrix) :
                Len(loc[r].metrics.confusion_matrix[a]) = Cardinality(HeldOutIds(r))
    /\ metricsFile.exists => InUnit(metricsFile.accuracy)

\* Run r is a run of main.py.
UnderMain(r) == main_pc[r] \notin {"alone", "absent"}

\* The eight files keep their content.
FilesKept ==
    /\ fleetFile' = fleetFile /\ featuresFile' = featuresFile
    /\ scoresFile' = scoresFile /\ clustersFile' = clustersFile
    /\ scalerFile' = scalerFile /\ knnFile' = knnFile
    /\ elbowFile' = elbowFile /\ metricsFile' = metricsFile

\* One step of the program seen from a run r of main.py.
OrderedStep(r) ==
    \* a stage is started in its turn only, and while no other is in progress
    /\ ran'[r] # ran[r] =>
          /\ pc[r] = "idle"
          /\ main_pc[r] \in {"03", "04", "05"}
          /\ ran'[r] = ran[r] \cup {main_pc[r]}
    /\ "04" \in ran[r] => "03" \in ran[r]
    /\ "05" \in ran[r] => "04" \in ran[r]
    \* main.py moves on after a stage that returned, stops after one that raised
    /\ main_pc'[r] # main_pc[r] =>
          \/ /\ IsError(last'[r])
             /\ main_pc'[r] = "failed"
             /\ FilesKept
          \/ /\ ~IsError(last'[r])
             /\ <<main_pc[r], main_pc'[r]>> \in
                   {<<"03", "04">>, <<"04", "05">>, <<"05", "finished">>}
    /\ (IsError(last'[r]) /\ last'[r] # last[r]) => main_pc'[r] = "failed"
    \* nothing is started after the end
    /\ main_pc[r] \in {"failed", "finished"} =>
          /\ main_pc'[r] = main_pc[r]
          /\ ran'[r] = ran[r]
          /\ pc'[r] = pc[r]
          /\ last'[r] = last[r]

\* C12: main.py starts stages 03, 04 and 05 in that order, one at a time; after
\* a stage that failed it starts no other stage, and the step in which the
\* stage fails leaves every file written before as it is.
C12_StagesInOrder == [][\A r \in Runs : UnderMain(r) => OrderedStep(r)]_vars

\* main.py stopped at stage 04, which could not write the scores table: the
\* features table of stage 03 is in place and stage 05 was never started.
C12_Witness ==
    /\ main_pc["A"] = "failed"
    /\ last["A"].stage = "04"
    /\ IsError(last["A"])
    /\ ran["A"] = {"03", "04"}
    /\ featuresFile.exists
    /\ writer.features = "A"
    /\ ~scoresFile.exists

\* Run r ends its call of the stage in this step.
Ends(r, stage) == last'[r] # last[r] /\ last'[r].stage = stage /\ pc'[r] = "idle"

\* The input file of the stage.
InputOf(stage) ==
    IF stage = "03" THEN fleetFile
    ELSE IF stage = "04" THEN featuresFile
    ELSE scoresFile

\* C13: a stage (03, 04 or 05) called while its input file is absent ends with
\* an exception, writes no file, and main.py, if it made the call, does not go
\* on to report the pipeline as finished.
C13_AbsentInputFails ==
    [][\A r \in Runs : \A stage \in {"03", "04", "05"} :
          (pc[r] = "idle" /\ Ends(r, stage) /\ ~InputOf(stage).exists) =>
              /\ IsError(last'[r])
              /\ FilesKept
              /\ main_pc'[r] # "finished"
              /\ UnderMain(r) => main_pc'[r] = "failed"]_vars

\* C14: when the aircraft table lacks some of airline_name, country, region,
\* entry_year, stage 03 ends with the ValueError of require_columns, raised
\* before any row is touched, whose message lists exactly the missing columns
\* (in the order airline_name, country, region, entry_year) and the columns the
\* table has; the run does not write the features table.
C14_MissingColumnsNamed ==
    \A r \in Runs :
       (last[r].stage = "03" /\ fleetFile.exists
           /\ ~(RequiredFleetCols \subseteq fleetFile.cols)) =>
          /\ last[r].result = "ValueError"
          /\ last[r].by = "require_columns"
          /\ Range(last[r].missing) = RequiredFleetCols \ fleetFile.cols
          /\ \A i, j \in 1..Len(last[r].missing) :
                i < j => \E a, b \in 1..4 :
                   /\ a < b
                   /\ <<"airline_name", "country", "region", "entry_year">>[a]
                         = last[r].missing[i]
                   /\ <<"airline_name", "country", "region", "entry_year">>[b]
                         = last[r].missing[j]
          /\ last[r].present = fleetFile.cols
          /\ writer.features # r
          /\ ~featuresFile.exists

\* Stage 03 was given a table with rows but without airline_name and
\* entry_year, and has named both, and the three columns the table has.
C14_Witness ==
    /\ last["A"].stage = "03"
    /\ Len(fleetFile.rows) > 0
    /\ last["A"].missing = <<"airline_name", "entry_year">>
    /\ last["A"].present = {"country", "region", "model_key"}
    /\ ~featuresFile.exists

\* The rows of the scores table that pass the fleet-size filter of stage 05.
RowsAfterFilter == Len(FleetFilter(scoresFile.rows))

\* Stage 05 of run r ended on a scores table with the required columns.
Stage05Ended(r) ==
    /\ last[r].stage = "05"
    /\ last[r].result \notin {"running", "returned"}
    /\ scoresFile.exists
    /\ {"fleet_size", "diversity_score", "modernity_index"} \subseteq scoresFile.cols

\* C15: when fewer than 4 rows pass the fleet-size filter, stage 05 ends with an
\* error raised by run() itself, not by the fit of the scaler or of the
\* 4-cluster model, which are not attempted; the run writes no artifact.
C15_ExplicitEmptyError ==
    \A r \in Runs :
       (Stage05Ended(r) /\ RowsAfterFilter < n_clusters) =>
          /\ IsError(last[r])
          /\ last[r].by \notin {"StandardScaler.fit_transform", "KMeans.fit_predict"}
          /\ \A f \in DOMAIN writer : f \notin {"features", "scores"} => writer[f] # r

\* Some cluster of the 4-cluster fit of run r has a single member.
LonelyCluster(r) ==
    \E c \in Classes(loc[r].clusters) : ClassCount(loc[r].clusters, c) < 2

\* The split of run r raised because of a cluster of a single member.
SplitRefused(r) ==
    /\ last[r].stage = "05"
    /\ last[r].by = "train_test_split"
    /\ last[r].why = "least populated class"

\* C16: when a cluster of the 4-cluster fit has fewer than 2 members, the
\* stratified split ends stage 05 with a ValueError: the stage does not go on
\* with another split, and the run writes neither the classifier nor the
\* metrics (nor any other artifact).
C16_LonelyClusterStopsStage ==
    [][\A r \in Runs :
          /\ (pc[r] = "split" /\ LonelyCluster(r) /\ pc'[r] # "split") =>
                /\ pc'[r] = "idle"
                /\ last'[r].result = "ValueError"
                /\ SplitRefused(r)'
                /\ FilesKept
          /\ pc[r] \in {"knn", "pca", "to_csv", "dump_scaler", "dump_knn",
                        "dump_elbow", "dump_metrics"} => ~LonelyCluster(r)
          /\ SplitRefused(r) =>
                \A f \in {"clusters", "scaler", "knn", "elbow", "metrics"} :
                   writer[f] # r]_vars

\* Stage 05 clustered 17 airlines, one of them alone in its cluster, swept the
\* elbow and was stopped by the split; no artifact exists.
C16_Witness ==
    /\ SplitRefused("A")
    /\ Len(scoresFile.rows) > 2 * n_clusters
    /\ ~knnFile.exists
    /\ ~metricsFile.exists
    /\ ~clustersFile.exists

\* The rows of the features table that pass the fleet-size filter of stage 04.
KeptFeatures == FleetFilter(featuresFile.rows)

\* C17: on a features table that has the columns fleet_size and
\* modernity_index, stage 04 raises nothing because of the values of
\* modernity_index (only a failed write can stop it): it writes one row for
\* each row of fleet_size >= 5, in order, with score 0 where the value is
\* missing or not a number.  On a table without one of the two columns it
\* raises the ValueError naming the missing columns and writes no scores table.
C17_MalformedScoresKept ==
    \A r \in Runs :
       (last[r].stage = "04" /\ featuresFile.exists) =>
          IF {"fleet_size", "modernity_index"} \subseteq featuresFile.cols
          THEN /\ last[r].result \in {"ok", "OSError"}
               /\ last[r].result = "ok" =>
                     /\ scoresFile.exists
                     /\ Len(scoresFile.rows) = Len(KeptFeatures)
                     /\ \A i \in 1..Len(KeptFeatures) :
                           /\ scoresFile.rows[i].airline_name
                                 = KeptFeatures[i].airline_name
                           /\ IsNaN(ToNumeric(KeptFeatures[i].modernity_index)) =>
                                 scoresFile.rows[i].modernity_index = RInt(0)
          ELSE /\ last[r].result = "ValueError"
               /\ Range(last[r].missing)
                     = {"fleet_size", "modernity_index"} \ featuresFile.cols
               /\ ~scoresFile.exists
               /\ writer.scores # r

\* Stage 04 has kept, with score 0, an airline of 5 aircraft whose score in
\* the features table is text that is not a number.
C17_Witness ==
    /\ last["A"] = Ok("04")
    /\ \E i \in 1..Len(KeptFeatures) :
          /\ KeptFeatures[i].modernity_index = BadText
          /\ scoresFile.rows[i].airline_name = KeptFeatures[i].airline_name
          /\ scoresFile.rows[i].modernity_index = RInt(0)

\* The five outputs of stage 05 in the order run() writes them, the position
\* of run() before each write, and the call that writes it.
Outputs05 == <<"clusters", "scaler", "knn", "elbow", "metrics">>

WritePcs == <<"to_csv", "dump_scaler", "dump_knn", "dump_elbow", "dump_metrics">>

WriteCalls ==
    <<"to_csv", "joblib.dump(scaler)", "joblib.dump(knn)", "open(elbow_data.json)",
      "open(knn_metrics.json)">>

\* The content run r has computed for its n-th output.
Computed(r, n) ==
    IF n = 1 THEN Table(loc[r].cols, loc[r].df_clean)
    ELSE IF n = 2 THEN loc[r].scaler
    ELSE IF n = 3 THEN loc[r].knn
    ELSE IF n = 4 THEN [exists |-> TRUE, k |-> loc[r].inertia.k,
                        inertia |-> loc[r].inertia.inertia]
    ELSE loc[r].metrics

\* The n-th output file.
OutputFile(n) ==
    IF n = 1 THEN clustersFile
    ELSE IF n = 2 THEN scalerFile
    ELSE IF n = 3 THEN knnFile
    ELSE IF n = 4 THEN elbowFile
    ELSE metricsFile

\* C18: stage 05 writes the clusters table, the scaler, the classifier, the
\* elbow record and the metrics record one after another, each in its own
\* file.  Before its p-th write the run has written the outputs before the
\* p-th, which hold what it computed, and none of the others; a write that
\* fails ends the stage and leaves all files as they are, so the outputs
\* written before keep their new content and the later ones are not written.
C18_NoRollback ==
    [][\A r \in Runs : \A p \in 1..5 :
          /\ pc[r] = WritePcs[p] =>
                /\ \A n \in 1..(p - 1) :
                      writer[Outputs05[n]] = r => OutputFile(n) = Computed(r, n)
                /\ \A n \in 1..(p - 1) :
                      main_pc["B"] = "absent" => writer[Outputs05[n]] = r
                /\ \A n \in p..5 : writer[Outputs05[n]] # r
          /\ (pc[r] = WritePcs[p] /\ IsError(last'[r]) /\ last'[r] # last[r]) =>
                /\ last'[r].by = WriteCalls[p]
                /\ FilesKept
                /\ writer' = writer
                /\ pc'[r] = "idle"
          /\ (last[r].stage = "05" /\ last[r].by = WriteCalls[p]
                 /\ last[r].result = "OSError") =>
                /\ \A n \in p..5 : writer[Outputs05[n]] # r
                /\ \A n \in 1..(p - 1) :
                      main_pc["B"] = "absent" =>
                         writer[Outputs05[n]] = r /\ OutputFile(n).exists]_vars

\* The third write of stage 05 failed: the clusters table and the scaler are
\* on disk, written by this run; classifier, elbow and metrics are not.
C18_Witness ==
    /\ last["A"].stage = "05"
    /\ last["A"].by = "joblib.dump(knn)"
    /\ clustersFile.exists /\ writer.clusters = "A"
    /\ scalerFile.exists /\ writer.scaler = "A"
    /\ ~knnFile.exists
    /\ ~elbowFile.exists
    /\ ~metricsFile.exists

\* Run r can take its next step: it is inside stage 05, whose steps are
\* guarded by its own position only, or the stage main.py calls next may start.
CanStep(r) == pc[r] # "idle" \/ MayStart(r, main_pc[r])

\* Two pipelines run against the same directory.
Concurrent == \A r \in Runs : main_pc[r] \notin {"alone", "absent"}

\* Run r writes the features file, the scores file, the n-th output of stage 05.
WritesFeatures(r) == pc[r] = "idle" /\ main_pc[r] \in {"alone", "03"} /\ "03" \notin ran[r]

WritesScores(r) == pc[r] = "idle" /\ main_pc[r] \in {"alone", "04"} /\ "04" \notin ran[r]

\* C19: while two pipelines run against the same directory, a run that has
\* not ended can always take its next step, whatever the other run is doing;
\* a file changes hands only when a run writes it, and it then holds what
\* that run computed, whatever it held before: the last writer wins, file by
\* file.
C19_LastWriterWins ==
    [][/\ Concurrent =>
             \A r \in Runs : main_pc[r] \in {"03", "04", "05"} => CanStep(r)
       /\ (featuresFile' # featuresFile \/ writer'.features # writer.features) =>
             \E r \in Runs : /\ WritesFeatures(r)
                             /\ last'[r] = Ok("03")
                             /\ writer'.features = r
                             /\ featuresFile' = BuildFeatures(fleetFile)
       /\ (scoresFile' # scoresFile \/ writer'.scores # writer.scores) =>
             \E r \in Runs : /\ WritesScores(r)
                             /\ last'[r] = Ok("04")
                             /\ writer'.scores = r
                             /\ scoresFile' = BuildScores(featuresFile)
       /\ \A n \in 1..5 :
             (OutputFile(n)' # OutputFile(n)
                 \/ writer'[Outputs05[n]] # writer[Outputs05[n]]) =>
             \E r \in Runs : /\ pc[r] = WritePcs[n]
                             /\ writer'[Outputs05[n]] = r
                             /\ OutputFile(n)' = Computed(r, n)]_vars

\* Both pipelines have finished and the files on disk come from different
\* runs: features and clusters from one, scores and metrics from the other.
C19_Witness ==
    /\ \A r \in Runs : main_pc[r] = "finished"
    /\ writer.features = "A" /\ writer.scores = "B"
    /\ writer.clusters = "A" /\ writer.metrics = "B"

\* C20: a prediction of the simulator leaves the loaded scaler and classifier
\* as they are and writes no file; the scaler it uses is the one read from
\* the scaler file, fitted by stage 05 on the four feature columns of the
\* clustered table; and the vector it transforms with that scaler holds the
\* widgets' values in the order fleet_size, diversity_score, modernity_index,
\* new_gen_share.
C20_PersistedScaler ==
    [][(app'.state = "predicted" /\ app' # app) =>
          /\ app.state \in {"loaded", "predicted"}
          /\ app'.scaler = app.scaler
          /\ app'.knn_model = app.knn_model
          /\ FilesKept
          /\ app'.scaler = scalerFile
          /\ app'.scaler = FitScaler(FeatureMatrix(app.df.rows))
          /\ app'.user_data_scaled =
                Transform(app'.scaler,
                          << RInt(app'.widgets.val_fleet), RInt(app'.widgets.val_div),
                             RInt(app'.widgets.val_mod), RInt(app'.widgets.val_ng) >>)]_vars

\* The simulator has predicted a cluster for widgets whose modernity index
\* and new-generation share differ, with the scaler stage 05 wrote.
C20_Witness ==
    /\ app.state = "predicted"
    /\ app.widgets.val_mod # app.widgets.val_ng
    /\ app.scaler = scalerFile
    /\ writer.scaler = "A"

\* Run r is past the split, past the evaluation.
PastSplit(r) == pc[r] \in {"knn", "pca"} \cup Range(WritePcs)

PastKnn(r) == pc[r] \in {"pca"} \cup Range(WritePcs)

\* The sum of all entries, and of the diagonal, of a square matrix of counts.
MatrixTotal(m) == SumSeq([a \in 1..Len(m) |-> SumSeq(m[a])])

MatrixTrace(m) == SumSeq([a \in 1..Len(m) |-> m[a][a]])

\* C21: the rows clustered by stage 05 are split into a training part and a
\* held-out part that share no row and together are all rows; the held-out
\* part is a fifth of the rows rounded up, and each cluster's share of the
\* training part is its proportional share, rounded down or up; the
\* classifier holds the training rows and their labels and nothing else; the
\* confusion matrix counts the held-out rows and the accuracy is the share of
\* them on its diagonal.
C21_SplitAndEvaluation ==
    \A r \in Runs :
       /\ PastSplit(r) =>
             LET y == loc[r].clusters
                 n == Len(y)
             IN  /\ loc[r].train \cap loc[r].test = {}
                 /\ loc[r].train \cup loc[r].test = 1..n
                 /\ Cardinality(loc[r].test) = (n + 4) \div 5
                 /\ \A c \in Classes(y) :
                       LET got == Cardinality(loc[r].train \cap Members(y, c))
                           share == (ClassCount(y, c) * (n - (n + 4) \div 5)) \div n
                       IN  got \in {share, share + 1}
       /\ PastKnn(r) =>
             LET idx == SortInts(loc[r].train)
             IN  /\ Len(loc[r].knn.X) = Cardinality(loc[r].train)
                 /\ \A t \in 1..Len(idx) :
                       /\ loc[r].knn.X[t] = loc[r].X_scaled.X[idx[t]]
                       /\ loc[r].knn.y[t] = loc[r].clusters[idx[t]]
                 /\ MatrixTotal(loc[r].metrics.confusion_matrix)
                       = Cardinality(loc[r].test)
                 /\ loc[r].metrics.accuracy
                       = Rat(MatrixTrace(loc[r].metrics.confusion_matrix),
                             Cardinality(loc[r].test))

\* A run has evaluated its classifier on at least two held-out rows taken from
\* at least two clusters, the training part holding rows of both.
C21_Witness ==
    /\ pc["A"] = "to_csv"
    /\ Cardinality(loc["A"].test) >= 2
    /\ Cardinality({loc["A"].clusters[i] : i \in loc["A"].test}) >= 2
    /\ Cardinality({loc["A"].clusters[i] : i \in loc["A"].train}) >= 2

\* The rows of the scores table that stage 05 keeps.
ScoresKept == FleetFilter(scoresFile.rows)

\* C22: the clusters table has one row per row of the scores table that
\* passes the fleet-size filter, in the same order.  When the scores table
\* has no new_gen_share column, each of these rows carries its own
\* modernity_index as new_gen_share; when the scores table has the column,
\* each row carries the new_gen_share it had in the scores table.
C22_NewGenShare ==
    clustersFile.exists =>
       /\ scoresFile.exists
       /\ "new_gen_share" \in clustersFile.cols
       /\ Len(clustersFile.rows) = Len(ScoresKept)
       /\ \A i \in RowIdx(clustersFile) :
             /\ clustersFile.rows[i].airline_name = ScoresKept[i].airline_name
             /\ clustersFile.rows[i].modernity_index = ScoresKept[i].modernity_index
             /\ clustersFile.rows[i].new_gen_share =
                   IF "new_gen_share" \in scoresFile.cols
                   THEN ScoresKept[i].new_gen_share
                   ELSE clustersFile.rows[i].modernity_index

\* A clusters table written from a scores table that had the column, with a
\* row whose share is not its index; and one written from a scores table
\* without the column.
C22_Witness ==
    /\ clustersFile.exists
    /\ "new_gen_share" \in scoresFile.cols
    /\ \E i \in RowIdx(clustersFile) :
          clustersFile.rows[i].new_gen_share # clustersFile.rows[i].modernity_index

C22_WitnessRebuilt ==
    /\ clustersFile.exists
    /\ "new_gen_share" \notin scoresFile.cols
    /\ \E i \in RowIdx(clustersFile) : clustersFile.rows[i].modernity_index # RInt(0)

\* The aircraft rows of the input that reach the aggregation of stage 03 and
\* have an airline name.
Aggregated ==
    {n \in RowIdx(fleetFile) :
        /\ fleetFile.rows[n].entry_year[2] # 0
        /\ Present(fleetFile.rows[n].region)
        /\ Present(fleetFile.rows[n].country)
        /\ ~IsNA(fleetFile.rows[n].airline_name)}

\* The rows of the features table in which aircraft row n is counted.
AirlineRowsOf(n) ==
    {i \in RowIdx(featuresFile) :
        featuresFile.rows[i].airline_name = Strip(fleetFile.rows[n].airline_name)}

\* Every aggregated aircraft row is counted in one airline row, and the
\* fleet_size of an airline row is the number of aircraft rows counted in it.
CountedOnce ==
    /\ \A n \in Aggregated : Cardinality(AirlineRowsOf(n)) = 1
    /\ \A i \in RowIdx(featuresFile) :
          featuresFile.rows[i].fleet_size =
             Cardinality({n \in Aggregated : AirlineRowsOf(n) = {i}})

\* C23 as stated: two aircraft rows are counted in the same airline row if and
\* only if their airline_name values are the same character for character.
C23_GroupedAsProvided ==
    FromStage03 =>
       /\ CountedOnce
       /\ \A n, m \in Aggregated :
             AirlineRowsOf(n) = AirlineRowsOf(m)
                <=> fleetFile.rows[n].airline_name = fleetFile.rows[m].airline_name

\* Aircraft rows are counted together exactly when their names are the same
\* without leading and trailing blanks.
GroupedAfterStrip ==
    FromStage03 =>
       /\ CountedOnce
       /\ \A i \in RowIdx(featuresFile) :
             featuresFile.rows[i].airline_name = Strip(featuresFile.rows[i].airline_name)
       /\ \A n, m \in Aggregated :
             AirlineRowsOf(n) = AirlineRowsOf(m)
                <=> Strip(fleetFile.rows[n].airline_name)
                       = Strip(fleetFile.rows[m].airline_name)

\* C23, amended: whenever stage 03 writes the features table, two aircraft
\* rows are counted in the same airline row if and only if their airline_name
\* values are the same once leading and trailing blanks are removed, and the
\* airline row carries the name without them.
C23_GroupedAfterStrip == [][featuresFile' # featuresFile => GroupedAfterStrip']_vars

\* Two aircraft rows whose names differ by a leading blank are counted in one
\* airline row, and a third aircraft row in another.
C23_Witness ==
    /\ FromStage03
    /\ \E n, m, x \in Aggregated :
          /\ fleetFile.rows[n].airline_name # fleetFile.rows[m].airline_name
          /\ AirlineRowsOf(n) = AirlineRowsOf(m)
          /\ AirlineRowsOf(x) # AirlineRowsOf(n)

\* The distinct values, missing ones left out, of column col among the
\* aggregated aircraft rows counted in airline row i.
DistinctIn(i, col) ==
    {fleetFile.rows[n][col] : n \in {n \in Aggregated : AirlineRowsOf(n) = {i}}} \ {NA}

\* C24 as stated: diversity_score is the number of distinct aircraft_type
\* values of the airline's surviving rows, and 0 for every airline when the
\* input has no aircraft_type column, whatever other columns it has.
C24_TypeOrZero ==
    FromStage03 =>
       \A i \in RowIdx(featuresFile) :
          featuresFile.rows[i].diversity_score =
             IF "aircraft_type" \in fleetFile.cols
             THEN Cardinality(DistinctIn(i, "aircraft_type"))
             ELSE 0

\* C24, amended: diversity_score is the number of distinct aircraft_type
\* values of the airline's surviving rows; when the input has no
\* aircraft_type column it is the number of distinct model_key values; it is
\* 0 for every airline only when the input has neither column.
C24_TypeThenModelKey ==
    FromStage03 =>
       \A i \in RowIdx(featuresFile) :
          featuresFile.rows[i].diversity_score =
             IF "aircraft_type" \in fleetFile.cols
             THEN Cardinality(DistinctIn(i, "aircraft_type"))
             ELSE IF "model_key" \in fleetFile.cols
             THEN Cardinality(DistinctIn(i, "model_key"))
             ELSE 0

\* The input has model_key and no aircraft_type, and an airline has two
\* distinct model keys.
C24_Witness ==
    /\ FromStage03
    /\ "aircraft_type" \notin fleetFile.cols
    /\ "model_key" \in fleetFile.cols
    /\ \E i \in RowIdx(featuresFile) : featuresFile.rows[i].diversity_score = 2

\* The number of aggregated aircraft rows counted in airline row i whose
\* entry_year is year or later.
EnteredSince(i, year) ==
    Cardinality({n \in Aggregated :
                    /\ AirlineRowsOf(n) = {i}
                    /\ fleetFile.rows[n].entry_year[1]
                          >= year * fleetFile.rows[n].entry_year[2]})

\* The counts and shares of every row of the features table.
FeatureRowArithmetic ==
    FromStage03 =>
       \A i \in RowIdx(featuresFile) :
          LET row == featuresFile.rows[i]
          IN  /\ row.fleet_size >= 1
              /\ row.modern_count_2015 = EnteredSince(i, 2015)
              /\ row.modern_count_2010 = EnteredSince(i, 2010)
              /\ 0 <= row.modern_count_2015
              /\ row.modern_count_2015 <= row.modern_count_2010
              /\ row.modern_count_2010 <= row.fleet_size
              /\ row.pct_modern_2015 = Rat(100 * row.modern_count_2015, row.fleet_size)
              /\ row.pct_modern_2010 = Rat(100 * row.modern_count_2010, row.fleet_size)
              /\ row.modernity_index = Rat(row.modern_count_2015, row.fleet_size)

\* C25: in every row of the features table stage 03 writes,
\* modern_count_2015 and modern_count_2010 are the numbers of the airline's
\* aircraft that entered service in 2015 or later and in 2010 or later, with
\* 0 <= modern_count_2015 <= modern_count_2010 <= fleet_size; the two
\* percentages are 100 times the counts over fleet_size, and modernity_index
\* is modern_count_2015 over fleet_size, which the clip to [0,1] leaves as
\* it is.
C25_CountsAndShares == [][featuresFile' # featuresFile => FeatureRowArithmetic']_vars

\* One airline has fewer aircraft from 2015 on than from 2010 on, another has
\* aircraft older than 2010 and an index strictly between 0 and 1.
C25_Witness ==
    /\ FromStage03
    /\ \E i \in RowIdx(featuresFile) :
          /\ 0 < featuresFile.rows[i].modern_count_2015
          /\ featuresFile.rows[i].modern_count_2015 < featuresFile.rows[i].modern_count_2010
    /\ \E i \in RowIdx(featuresFile) :
          /\ featuresFile.rows[i].modern_count_2010 < featuresFile.rows[i].fleet_size
          /\ RLess(RInt(0), featuresFile.rows[i].modernity_index)
          /\ RLess(featuresFile.rows[i].modernity_index, RInt(1))

\* The step is one of run r.
StepOf(r) ==
    pc'[r] # pc[r] \/ loc'[r] # loc[r] \/ last'[r] # last[r] \/ ran'[r] # ran[r]

\* The five outputs of stage 05 and their writers are left as they are.
OutputsKept ==
    \A n \in 1..5 :
       /\ OutputFile(n)' = OutputFile(n)
       /\ writer'[Outputs05[n]] = writer[Outputs05[n]]

\* Run r has written none of the five outputs.
NothingWrittenBy(r) == \A n \in 1..5 : writer[Outputs05[n]] # r

\* C26: a step of a run that is not at one of the five writes of stage 05
\* leaves the five output files as they are; when a run reaches the first
\* write it has written none of them and holds the 4-cluster labels, the nine
\* elbow values, the split, the fitted classifier, the metrics and the
\* projection columns; and when a computation of stage 05 fails, the run has
\* written none of the five files and the failing step writes none.
C26_WritesComeLast ==
    [][\A r \in Runs :
          /\ (StepOf(r) /\ pc[r] \notin Range(WritePcs)) => OutputsKept
          /\ pc[r] = "to_csv" =>
                /\ NothingWrittenBy(r)
                /\ Len(loc[r].clusters) = Len(loc[r].df_clean)
                /\ Len(loc[r].inertia.inertia) = ElbowLast
                /\ loc[r].train \cup loc[r].test = 1..Len(loc[r].clusters)
                /\ loc[r].knn.exists
                /\ loc[r].metrics.exists
                /\ {"cluster", "pca_1", "pca_2"} \subseteq loc[r].cols
          /\ (Ends(r, "05") /\ IsError(last'[r])
                 /\ last'[r].by \notin Range(WriteCalls)) =>
                /\ NothingWrittenBy(r)
                /\ OutputsKept
                /\ \A n \in 1..5 : writer'[Outputs05[n]] # r]_vars

\* The stratified split of a run failed after the scaling, the 4-cluster fit
\* and the elbow sweep had succeeded, and none of the five files exists.
C26_Witness ==
    /\ last["A"].stage = "05"
    /\ last["A"].by = "train_test_split"
    /\ IsError(last["A"])
    /\ \A n \in 1..5 : ~OutputFile(n).exists

\* No run is in progress: every run of main.py has finished or failed.
AllRunsEnded ==
    \A r \in Runs : pc[r] = "idle" /\ main_pc[r] \in {"finished", "failed", "absent"}

\* C27: once every run has ended, successfully or not, if the scaler file and
\* the classifier file both exist then they and the clusters table were
\* written by the same run.
C27_SameTrainingRun ==
    (AllRunsEnded /\ scalerFile.exists /\ knnFile.exists) =>
       /\ writer.scaler = writer.knn
       /\ clustersFile.exists
       /\ writer.clusters = writer.knn

\* One run of main.py has finished; the other has replaced the clusters table
\* and the scaler and failed on the write of the classifier, which is still
\* the one the finished run wrote.
C27_MixedAfterFailure ==
    /\ main_pc["A"] = "finished"
    /\ main_pc["B"] = "failed"
    /\ last["B"].by = "joblib.dump(knn)"
    /\ writer.clusters = "B" /\ writer.scaler = "B"
    /\ writer.knn = "A" /\ writer.elbow = "A" /\ writer.metrics = "A"

\* Row i of the scores table agrees with row i of the kept rows of the
\* features table in every column but modernity_index.
SameElsewhere(i) ==
    \A f \in DOMAIN KeptFeatures[i] \ {"modernity_index"} :
       scoresFile.rows[i][f] = KeptFeatures[i][f]

\* C28: when stages 04 and 05 of a run have both succeeded, the clusters
\* table has the airlines of the scores table, row for row: the fleet-size
\* filter of stage 05 removes no row of the scores table, every row of which
\* has fleet_size >= 5 already.
C28_FilterTwice ==
    \A r \in Runs :
       ({"04", "05"} \subseteq ran[r] /\ last[r] = Ok("05")) =>
          /\ scoresFile.exists /\ clustersFile.exists
          /\ \A i \in RowIdx(scoresFile) : scoresFile.rows[i].fleet_size >= MIN_FLEET_SIZE
          /\ FleetFilter(scoresFile.rows) = scoresFile.rows
          /\ Len(clustersFile.rows) = Len(scoresFile.rows)
          /\ \A i \in RowIdx(scoresFile) :
                /\ clustersFile.rows[i].airline_name = scoresFile.rows[i].airline_name
                /\ clustersFile.rows[i].fleet_size = scoresFile.rows[i].fleet_size

\* Stages 04 and 05 have succeeded on a features table with an airline of
\* four aircraft, which stage 04 dropped, and airlines of exactly five.
C28_Witness ==
    /\ {"04", "05"} \subseteq ran["A"]
    /\ last["A"] = Ok("05")
    /\ \E i \in RowIdx(featuresFile) : featuresFile.rows[i].fleet_size < MIN_FLEET_SIZE
    /\ \E i \in RowIdx(clustersFile) : clustersFile.rows[i].fleet_size = MIN_FLEET_SIZE
    /\ Len(clustersFile.rows) < Len(featuresFile.rows)

\* C29: the scores table has the columns of the features table and one row
\* for each row of the features table with fleet_size >= 5, in the same
\* order, with the same value in every column but modernity_index.
C29_OnlyRowsAndScore ==
    (featuresFile.exists /\ scoresFile.exists) =>
       /\ scoresFile.cols = featuresFile.cols
       /\ Len(scoresFile.rows) = Len(KeptFeatures)
       /\ \A i \in 1..Len(KeptFeatures) : SameElsewhere(i)

=============================================================================
